---- MODULE Spec2Model ----
(***************************************************************************)
(* BLE HID gamepad bridge (esphome/components/ble_gamepad): the            *)
(* connection context, the handle table and the HOGP initialization        *)
(* sequencer of class BLEGamepad, driven by the Bluedroid GAP / GATT       *)
(* client callbacks.  Every handler is one action.  The peer device and    *)
(* the BLE stack are the environment.                                      *)
(***************************************************************************)
EXTENDS Integers, Sequences, FiniteSets, TLC

(***************************************************************************)
(* Bounds of the model.                                                    *)
(***************************************************************************)
\* HID-Report characteristics one peer device exposes, at most.
MaxReports == 2
\* Connections opened in one run, at most.
MaxConnections == 2
\* Misbehaviours of the stack in one run, at most: a failed call, a non-OK
\* answer, or a stray (duplicated, late, mismatched) completion.
MaxFaults == 1
\* Length at which the model stops a run that keeps appending to
\* hid_report_chars_ (std::vector is unbounded).
MaxReportChars == 4

(***************************************************************************)
(* Program constants.                                                      *)
(***************************************************************************)
MAX_DISCOVERY_RETRIES == 3
ESP_GATT_IF_NONE == 0
\* The interface Bluedroid hands to this component's application.
OwnGattIf == ESP_GATT_IF_NONE + 1

OK == "OK"
FAIL == "FAIL"
Statuses == {OK, FAIL}

InitStates ==
  {"IDLE", "READING_DIS_PNPID", "READING_HID_INFO", "READING_REPORT_MAP",
   "SETTING_PROTOCOL_MODE", "REGISTERING_NOTIFICATIONS",
   "ENABLING_NOTIFICATIONS", "READING_INITIAL_REPORT", "COMPLETE"}

(***************************************************************************)
(* The peer device: its GATT database.  Handles are assigned in order, as  *)
(* a peripheral lays out its attribute table: the Device-Information       *)
(* service first (when present), then the HID service.                     *)
(***************************************************************************)
DisKinds == {"none", "nopnp", "pnp"}

ReportSeqs == UNION {[1..n -> BOOLEAN] : n \in 0..MaxReports}

\* reps[i] = TRUE: the i-th HID-Report characteristic has a CCC descriptor.
Devices ==
  {d \in [dis : DisKinds, hid : BOOLEAN, info : BOOLEAN, map : BOOLEAN,
          pm : BOOLEAN, reps : ReportSeqs] :
      ~d.hid => (~d.info /\ ~d.map /\ ~d.pm /\ d.reps = <<>>)}

B2N(b) == IF b THEN 1 ELSE 0

DevDisStart(d) == IF d.dis = "none" THEN 0 ELSE 1
DevDisEnd(d) == IF d.dis = "none" THEN 0 ELSE 2
DevPnp(d) == IF d.dis = "pnp" THEN 2 ELSE 0
DevHidStart(d) == IF d.hid THEN DevDisEnd(d) + 1 ELSE 0
DevInfo(d) == IF d.hid /\ d.info THEN DevHidStart(d) + 1 ELSE 0
DevMap(d) == IF d.hid /\ d.map THEN DevHidStart(d) + B2N(d.info) + 1 ELSE 0
DevPm(d) ==
  IF d.hid /\ d.pm THEN DevHidStart(d) + B2N(d.info) + B2N(d.map) + 1 ELSE 0
RepBase(d) == DevHidStart(d) + B2N(d.info) + B2N(d.map) + B2N(d.pm)

RECURSIVE RepSpan(_, _)
\* Handles taken by the first n HID-Report characteristics and their CCCs.
RepSpan(d, n) == IF n = 0 THEN 0 ELSE RepSpan(d, n - 1) + 1 + B2N(d.reps[n])

DevRepChar(d, i) == RepBase(d) + RepSpan(d, i - 1) + 1
DevRepCcc(d, i) == IF d.reps[i] THEN DevRepChar(d, i) + 1 ELSE 0
DevHidEnd(d) == IF d.hid THEN RepBase(d) + RepSpan(d, Len(d.reps)) ELSE 0

\* The characteristics of the database, in handle order.
DevChars(d) ==
  (IF d.dis = "pnp" THEN <<[handle |-> 2, uuid |-> "PNP_ID"]>>
   ELSE IF d.dis = "nopnp" THEN <<[handle |-> 2, uuid |-> "OTHER"]>>
   ELSE <<>>)
  \o (IF d.hid /\ d.info THEN <<[handle |-> DevInfo(d), uuid |-> "HID_INFO"]>>
      ELSE <<>>)
  \o (IF d.hid /\ d.map THEN <<[handle |-> DevMap(d), uuid |-> "REPORT_MAP"]>>
      ELSE <<>>)
  \o (IF d.hid /\ d.pm THEN <<[handle |-> DevPm(d), uuid |-> "PROTOCOL_MODE"]>>
      ELSE <<>>)
  \o [i \in 1..Len(d.reps) |-> [handle |-> DevRepChar(d, i), uuid |-> "HID_REPORT"]]

\* The CCC descriptor of a characteristic of the database (0: none).
DevCccOf(d, h) ==
  IF \E i \in 1..Len(d.reps) : DevRepChar(d, i) = h /\ d.reps[i]
  THEN h + 1 ELSE 0

\* Highest handle a device of the model uses, and the handle values events
\* carry (0 is not an attribute handle).
MaxHandle == 3 + 3 + 2 * MaxReports
Handles == 1..(MaxHandle + 1)

\* The last attribute of the database.
DevLastHandle(d) == IF d.hid THEN DevHidEnd(d) ELSE DevDisEnd(d)

\* The peer can answer the request with success: a read of an attribute it
\* has, a write to its Protocol-Mode or to a report, a write to one of its
\* CCC descriptors.  Everything else the bridge asks for is up to the stack.
ValidReq(d, r) ==
  IF r.op = "read_char" THEN r.h \in 1..DevLastHandle(d)
  ELSE IF r.op = "write_char"
  THEN r.h # 0 /\ (r.h = DevPm(d) \/ \E i \in DOMAIN d.reps : r.h = DevRepChar(d, i))
  ELSE IF r.op = "write_descr"
  THEN r.h # 0 /\ \E i \in DOMAIN d.reps : r.h = DevRepCcc(d, i)
  ELSE TRUE

\* esp_ble_gattc_get_all_char over a handle range of the connected peer.
GetAllChar(d, lo, hi) ==
  SelectSeq(DevChars(d), LAMBDA c : lo <= c.handle /\ c.handle <= hi)

(***************************************************************************)
(* State of BLEGamepad (ble_gamepad.h) and of its environment.             *)
(***************************************************************************)
VARIABLES
  gattc_if_, gatt_registered_, failed, connected_, scanning_,
  dis_service_start_handle_, dis_service_end_handle_, dis_pnp_id_handle_,
  hid_service_start_handle_, hid_service_end_handle_,
  hid_info_handle_, hid_report_map_handle_, protocol_mode_handle_,
  hid_report_chars_,
  init_state_, service_discovery_retries_, current_notify_index_,
  active_controller_, vendor_id_, product_id_,
  \* the connection id of the last open event, the state_ of the controller
  \* object (reset when there is none) and the previous frame of loop()
  conn_id_, state_, prev_state_,
  \* the scan result handed to gap_scan_event_handler last (the advertisement
  \* buffer and its declared length) and the buffer indices the filter read
  ble_adv, adv_data_len, adv_reads,
  \* the notification handed to gattc_event_handler last: its connection
  \* id, attribute handle and value
  notify,
  \* the cached rumble magnitudes of the controller object (zero when there
  \* is none)
  rumble_,
  \* the stick axes of the loop() frame that fired the on-stick callback last
  \* (those of the first prev_state_ before any did): kept for the properties
  reported,
  \* InputHandler (input_handler.h): the queue, the task that holds the mutex
  \* ("free": none, "null": the mutex was not created), the call each task is
  \* in, and the number of events handed to push_event so far
  queue_, mutex_, task, pushed,
  \* environment: the peer of the current (or last) connection, whether the
  \* link is up, the connections opened and the misbehaviours so far
  dev, linkUp, nconn, faults,
  \* the event the last handler ran for, and what the handler did: requests
  \* the stack accepted, callbacks fired
  evt, issued, fired,
  \* requests the stack has accepted and not answered yet
  pending,
  \* the sequencer's requests since the connection was opened
  hist

ctxVars == <<gattc_if_, gatt_registered_, failed, prev_state_>>
linkVars == <<connected_, active_controller_, conn_id_, state_>>
svcVars ==
  <<dis_service_start_handle_, dis_service_end_handle_,
    hid_service_start_handle_, hid_service_end_handle_>>
charVars ==
  <<dis_pnp_id_handle_, hid_info_handle_, hid_report_map_handle_,
    protocol_mode_handle_, hid_report_chars_>>
seqVars == <<init_state_, service_discovery_retries_, current_notify_index_>>
idVars == <<vendor_id_, product_id_>>
inputVars == <<queue_, mutex_, task, pushed>>
scanVars ==
  <<ble_adv, adv_data_len, adv_reads, notify, rumble_, reported, inputVars>>
envVars == <<dev, linkUp, nconn, faults>>
outVars == <<evt, issued, fired>>
vars ==
  <<ctxVars, scanning_, linkVars, svcVars, charVars, seqVars, idVars, envVars,
    outVars, pending, hist, scanVars>>

Req(op, h) == [op |-> op, h |-> h]

\* A notification, and none.
Notification(cid, handle, value) ==
  [conn_id |-> cid, handle |-> handle, value |-> value]
NoNotify == Notification(0, 0, <<>>)

\* XboxController::rumble_ with its member initializers
NoRumble == [weak |-> 0, strong |-> 0]

\* The tasks that call the InputHandler: the game loop and two producers.
Producers == {"producer1", "producer2"}
Tasks == Producers \cup {"game"}

\* A task outside every call of the InputHandler.
Outside == [pc |-> "outside", event |-> 0]

\* An InputHandler nobody uses.
NoInput ==
  /\ queue_ = <<>>
  /\ mutex_ = "free"
  /\ task = [t \in Tasks |-> Outside]
  /\ pushed = 0

\* An event: its name, its status and the attribute handle it carries (0: none).
Ev(name, status, handle) == [name |-> name, status |-> status, handle |-> handle]

\* Requests that belong to one connection: the stack drops them with the link.
ConnOps ==
  {"encrypt", "search_dis", "search_hid", "read_char", "write_char",
   "reg_notify", "write_descr", "close"}
\* The requests of discovery and of the HOGP sequence.
SeqOps ==
  {"search_dis", "search_hid", "read_char", "write_char", "reg_notify",
   "write_descr"}

NoDevice ==
  [dis |-> "none", hid |-> FALSE, info |-> FALSE, map |-> FALSE, pm |-> FALSE,
   reps |-> <<>>]

(***************************************************************************)
(* controller_base.h: the normalized controller state.                     *)
(***************************************************************************)
ButtonFields ==
  {"dpad_up", "dpad_down", "dpad_left", "dpad_right",
   "button_south", "button_east", "button_west", "button_north",
   "button_l1", "button_r1", "button_l2", "button_r2", "button_l3",
   "button_r3", "button_select", "button_start", "button_home", "button_misc"}

\* ControllerState::reset(), which is also ControllerState{}.
reset ==
  [buttons |-> [b \in ButtonFields |-> FALSE],
   left_stick_x |-> 0, left_stick_y |-> 0,
   right_stick_x |-> 0, right_stick_y |-> 0,
   left_trigger |-> 0, right_trigger |-> 0,
   battery_level |-> 255,
   connected |-> FALSE]

(***************************************************************************)
(* xbox_controller.cpp: the parser of the 16-byte BLE input report.        *)
(***************************************************************************)
STICK_CENTER_16 == 32768
StickScale == 127
StickRange == 32768
TriggerMask == 3
TriggerScale == 255
TriggerMax == 1023
ReportLen == 16
MinReportLen == 2

\* The four stick axes of a state.
Sticks(st) ==
  [left_stick_x |-> st.left_stick_x, left_stick_y |-> st.left_stick_y,
   right_stick_x |-> st.right_stick_x, right_stick_y |-> st.right_stick_y]

\* XboxController::on_connect() on the state the constructor has reset.
on_connect == [reset EXCEPT !.connected = TRUE]

\* The quotient of C's integer division, which truncates toward zero.
CDiv(a, b) == IF a >= 0 THEN a \div b ELSE -((-a) \div b)

\* static_cast<int8_t> and the store into a uint8_t
ToInt8(v) == LET m == v % 256 IN IF m >= 128 THEN m - 256 ELSE m
ToUint8(v) == v % 256

\* lo | (hi << 8)
U16(lo, hi) == lo + hi * 256

\* byte & mask, for a mask of one bit
Bit(byte, mask) == (byte \div mask) % 2 = 1

\* byte & mask, for a mask of the low bits (mask + 1 a power of two)
LowBits(byte, mask) == byte % (mask + 1)

\* XboxController::normalize_stick_16_
normalize_stick_16_(raw) ==
  LET centered == raw - STICK_CENTER_16
  IN ToInt8(CDiv(centered * StickScale, StickRange))

\* The trigger conversion without the mask of the high byte.
ScaleTriggerUnmasked(lo, hi) ==
  ToUint8((U16(lo, hi) * TriggerScale) \div TriggerMax)

\* lt_raw = data[8] | ((data[9] & 0x03) << 8); (lt_raw * 255) / 1023
ScaleTrigger(lo, hi) ==
  ToUint8((U16(lo, LowBits(hi, TriggerMask)) * TriggerScale) \div TriggerMax)

\* The d-pad flags of a hat value, with the diagonals left out.
HatFlagsCardinal(hat) ==
  [dpad_up |-> hat = 1, dpad_down |-> hat = 5,
   dpad_left |-> hat = 7, dpad_right |-> hat = 3]

\* The d-pad flags of the hat byte data[12]
HatFlags(hat) ==
  [dpad_up |-> hat \in {1, 2, 8}, dpad_down |-> hat \in {4, 5, 6},
   dpad_left |-> hat \in {6, 7, 8}, dpad_right |-> hat \in {2, 3, 4}]

\* data[k] of the report
Byte(data, k) == data[k + 1]

\* The button flags with X and Y of byte 13 at bits 2 and 3.
ParsedButtonsPacked(data) ==
  LET hat == HatFlags(Byte(data, 12))
      b13 == Byte(data, 13)
      b14 == Byte(data, 14)
      b15 == Byte(data, 15)
  IN [dpad_up |-> hat.dpad_up, dpad_down |-> hat.dpad_down,
      dpad_left |-> hat.dpad_left, dpad_right |-> hat.dpad_right,
      button_south |-> Bit(b13, 1), button_east |-> Bit(b13, 2),
      button_west |-> Bit(b13, 4), button_north |-> Bit(b13, 8),
      button_l1 |-> Bit(b13, 64), button_r1 |-> Bit(b13, 128),
      button_select |-> Bit(b14, 4), button_start |-> Bit(b14, 8),
      button_home |-> Bit(b14, 16), button_l3 |-> Bit(b14, 32),
      button_r3 |-> Bit(b14, 64),
      button_misc |-> Bit(b15, 1)]

\* The button flags the parser assigns, from bytes 12..15.
ParsedButtons(data) ==
  LET hat == HatFlags(Byte(data, 12))
      b13 == Byte(data, 13)
      b14 == Byte(data, 14)
      b15 == Byte(data, 15)
  IN [dpad_up |-> hat.dpad_up, dpad_down |-> hat.dpad_down,
      dpad_left |-> hat.dpad_left, dpad_right |-> hat.dpad_right,
      button_south |-> Bit(b13, 1), button_east |-> Bit(b13, 2),
      button_west |-> Bit(b13, 8), button_north |-> Bit(b13, 16),
      button_l1 |-> Bit(b13, 64), button_r1 |-> Bit(b13, 128),
      button_select |-> Bit(b14, 4), button_start |-> Bit(b14, 8),
      button_home |-> Bit(b14, 16), button_l3 |-> Bit(b14, 32),
      button_r3 |-> Bit(b14, 64),
      button_misc |-> Bit(b15, 1)]

\* state_ after the assignments of parse_ble_report_.  button_l2, button_r2,
\* battery_level and connected are not assigned.
ParsedState(state, data) ==
  LET pb == ParsedButtons(data) IN
  [state EXCEPT
     !.left_stick_x = normalize_stick_16_(U16(Byte(data, 0), Byte(data, 1))),
     !.left_stick_y =
        ToInt8(-normalize_stick_16_(U16(Byte(data, 2), Byte(data, 3)))),
     !.right_stick_x = normalize_stick_16_(U16(Byte(data, 4), Byte(data, 5))),
     !.right_stick_y =
        ToInt8(-normalize_stick_16_(U16(Byte(data, 6), Byte(data, 7)))),
     !.left_trigger = ScaleTrigger(Byte(data, 8), Byte(data, 9)),
     !.right_trigger = ScaleTrigger(Byte(data, 10), Byte(data, 11)),
     !.buttons = [b \in ButtonFields |->
                    IF b \in DOMAIN pb THEN pb[b] ELSE state.buttons[b]]]

\* The parser with the length test `len <= 16`.
parse_ble_report_Strict(state, data, len) ==
  IF len <= ReportLen THEN [ok |-> FALSE, state |-> state]
  ELSE [ok |-> TRUE, state |-> ParsedState(state, data)]

\* XboxController::parse_ble_report_: [ok, state], the return value and state_
\* after the call.
parse_ble_report_(state, data, len) ==
  IF len < ReportLen THEN [ok |-> FALSE, state |-> state]
  ELSE [ok |-> TRUE, state |-> ParsedState(state, data)]

\* XboxController::parse_input_report; the value of a notification is never
\* a null pointer.
parse_input_report(state, report, len) ==
  IF len < MinReportLen THEN [ok |-> FALSE, state |-> state]
  ELSE parse_ble_report_(state, report, len)

\* XboxController::on_disconnect()
on_disconnect == reset

\* set_rumble reporting the magnitudes as sent.
set_rumbleSent(weak_magnitude, strong_magnitude, duration_ms) ==
  [ok |-> TRUE, rumble |-> [weak |-> weak_magnitude, strong |-> strong_magnitude]]

\* XboxController::set_rumble: [ok, rumble], the return value and rumble_
\* after the call.
set_rumble(weak_magnitude, strong_magnitude, duration_ms) ==
  [ok |-> FALSE, rumble |-> [weak |-> weak_magnitude, strong |-> strong_magnitude]]

\* XboxController::set_led_color
set_led_color(r, g, b) == FALSE

\* XboxController::supports_rumble() and supports_led() (xbox_controller.h)
supports_rumble == TRUE
supports_led == TRUE

\* The member initializers of the fields a connection writes.
FreshMembers ==
  /\ failed = FALSE
  /\ dis_service_start_handle_ = 0
  /\ dis_service_end_handle_ = 0
  /\ dis_pnp_id_handle_ = 0
  /\ hid_service_start_handle_ = 0
  /\ hid_service_end_handle_ = 0
  /\ hid_info_handle_ = 0
  /\ hid_report_map_handle_ = 0
  /\ protocol_mode_handle_ = 0
  /\ hid_report_chars_ = <<>>
  /\ init_state_ = "IDLE"
  /\ service_discovery_retries_ = 0
  /\ current_notify_index_ = 0
  /\ active_controller_ = FALSE
  /\ conn_id_ = 0
  /\ state_ = reset
  /\ prev_state_ = reset
  /\ vendor_id_ = 0
  /\ product_id_ = 0

\* BLEGamepad::BLEGamepad() = default, with the member initializers.
Init ==
  /\ gattc_if_ = ESP_GATT_IF_NONE
  /\ gatt_registered_ = FALSE
  /\ connected_ = FALSE
  /\ scanning_ = FALSE
  /\ FreshMembers
  /\ ble_adv = <<0>>
  /\ adv_data_len = 0
  /\ adv_reads = {}
  /\ notify = NoNotify
  /\ rumble_ = NoRumble
  /\ reported = Sticks(reset)
  /\ NoInput
  /\ dev = NoDevice
  /\ linkUp = FALSE
  /\ nconn = 0
  /\ faults = 0
  /\ evt = Ev("none", OK, 0)
  /\ issued = <<>>
  /\ fired = <<>>
  /\ pending = {}
  /\ hist = <<>>

(***************************************************************************)
(* Helpers of the handlers.                                                *)
(***************************************************************************)
\* The handler returns without a request or a callback.
Quiet == issued' = <<>> /\ fired' = <<>>

\* The handler changes nothing at all.
Ignore ==
  /\ Quiet
  /\ UNCHANGED <<ctxVars, idVars, scanning_, linkVars, svcVars, charVars, seqVars>>

\* gattc_event_handler's interface filter (REG_EVT is exempt).
ForeignIf(gif) == gif # ESP_GATT_IF_NONE /\ gif # gattc_if_

\* disconnect_(), called with connected_ as it is before the handler; reqs are
\* the requests the handler issued before the call.  A failed close is never
\* accepted by the stack: the handler cleans up by itself.
disconnect_(closeRet, reqs) ==
  IF connected_
  THEN IF closeRet = OK
       THEN /\ issued' = reqs \o <<Req("close", 0)>>
            /\ fired' = <<>>
            /\ UNCHANGED linkVars
       ELSE /\ issued' = reqs
            /\ connected_' = FALSE
            /\ active_controller_' = FALSE
            /\ state_' = reset
            /\ UNCHANGED conn_id_
            /\ fired' =
                 (IF active_controller_ THEN <<"controller_on_disconnect">>
                  ELSE <<>>) \o <<"on_disconnect_trigger">>
  ELSE /\ issued' = reqs
       /\ fired' = <<>>
       /\ UNCHANGED linkVars

\* start_scan_(): scanning_ is set when the stack takes the scan parameters.
start_scan_(paramRet) ==
  IF paramRet = OK THEN scanning_' = TRUE ELSE UNCHANGED scanning_
StartScanReqs(paramRet) ==
  IF paramRet = OK THEN <<Req("set_scan_params", 0)>> ELSE <<>>

\* The loops without the test `ccc_handle != 0`: the first entry at or after
\* `from`, whatever its CCC handle.
FirstCccFromAny(chars, from) ==
  LET S == from..(Len(chars) - 1)
  IN IF S = {} THEN -1 ELSE CHOOSE i \in S : \A j \in S : i <= j

\* Index (from 0) of the first entry at or after `from` with a CCC handle, or -1.
FirstCccFrom(chars, from) ==
  LET S == {i \in from..(Len(chars) - 1) : chars[i + 1].ccc_handle # 0}
  IN IF S = {} THEN -1 ELSE CHOOSE i \in S : \A j \in S : i <= j

\* enable_all_notifications_() over the report characteristics `chars`.
enable_all_notifications_(chars, regRet, closeRet) ==
  LET i == FirstCccFrom(chars, 0) IN
  /\ init_state_' = "REGISTERING_NOTIFICATIONS"
  /\ IF i >= 0
     THEN /\ current_notify_index_' = i
          /\ IF regRet = OK
             THEN /\ issued' = <<Req("reg_notify", chars[i + 1].char_handle)>>
                  /\ fired' = <<>>
                  /\ UNCHANGED linkVars
             ELSE disconnect_(closeRet, <<>>)
     ELSE /\ current_notify_index_' = 0
          /\ disconnect_(closeRet, <<>>)

(***************************************************************************)
(* BLEGamepad::loop(): registration of the GATT client application, then   *)
(* the comparison of the controller state with the previous frame.  The    *)
(* BLE stack is active.                                                    *)
(***************************************************************************)
STICK_DEADZONE == 5

\* The CHECK_BUTTON lines, in their order: the field and the callback's name.
CHECK_BUTTON ==
  << [field |-> "dpad_up", name |-> "UP"],
     [field |-> "dpad_down", name |-> "DOWN"],
     [field |-> "dpad_left", name |-> "LEFT"],
     [field |-> "dpad_right", name |-> "RIGHT"],
     [field |-> "button_south", name |-> "A"],
     [field |-> "button_east", name |-> "B"],
     [field |-> "button_select", name |-> "SELECT"],
     [field |-> "button_start", name |-> "START"],
     [field |-> "button_west", name |-> "X"],
     [field |-> "button_north", name |-> "Y"],
     [field |-> "button_l1", name |-> "L1"],
     [field |-> "button_r1", name |-> "R1"],
     [field |-> "button_l3", name |-> "L3"],
     [field |-> "button_r3", name |-> "R3"],
     [field |-> "button_home", name |-> "HOME"],
     [field |-> "button_misc", name |-> "MISC"] >>

\* on_button_callbacks_.call(name, value) and on_stick_callbacks_.call()
OnButton(name, value) == [cb |-> "on_button", name |-> name, value |-> value]
OnStick == [cb |-> "on_stick", name |-> "", value |-> FALSE]

Abs(x) == IF x < 0 THEN -x ELSE x

\* The on-button calls of one iteration.
ButtonCalls(current, prev) ==
  LET Differs(c) == current.buttons[c.field] # prev.buttons[c.field]
      sel == SelectSeq(CHECK_BUTTON, Differs)
  IN [i \in 1..Len(sel) |-> OnButton(sel[i].name, current.buttons[sel[i].field])]

\* The comparison with `>= STICK_DEADZONE`.
stick_changedInclusive(current, prev) ==
  \/ Abs(current.left_stick_x - prev.left_stick_x) >= STICK_DEADZONE
  \/ Abs(current.left_stick_y - prev.left_stick_y) >= STICK_DEADZONE
  \/ Abs(current.right_stick_x - prev.right_stick_x) >= STICK_DEADZONE
  \/ Abs(current.right_stick_y - prev.right_stick_y) >= STICK_DEADZONE

stick_changed(current, prev) ==
  \/ Abs(current.left_stick_x - prev.left_stick_x) > STICK_DEADZONE
  \/ Abs(current.left_stick_y - prev.left_stick_y) > STICK_DEADZONE
  \/ Abs(current.right_stick_x - prev.right_stick_x) > STICK_DEADZONE
  \/ Abs(current.right_stick_y - prev.right_stick_y) > STICK_DEADZONE

\* "Main loop - check for state changes and fire triggers"
CheckStateChanges ==
  IF ~active_controller_
  THEN /\ fired' = <<>>
       /\ UNCHANGED prev_state_
  ELSE /\ fired' = ButtonCalls(state_, prev_state_)
                   \o (IF stick_changed(state_, prev_state_)
                       THEN <<OnStick>> ELSE <<>>)
       /\ prev_state_' = state_

loop(appRet) ==
  /\ IF gattc_if_ = ESP_GATT_IF_NONE /\ ~gatt_registered_
     THEN /\ gatt_registered_' = TRUE
          /\ failed' = (failed \/ appRet # OK)
          /\ IF appRet = OK
             THEN /\ issued' = <<Req("app_register", 0)>>
                  /\ CheckStateChanges
             ELSE /\ Quiet
                  /\ UNCHANGED prev_state_
     ELSE /\ issued' = <<>>
          /\ CheckStateChanges
          /\ UNCHANGED <<gatt_registered_, failed>>
  /\ UNCHANGED <<gattc_if_, scanning_, linkVars, svcVars, charVars, seqVars,
                 idVars>>

(***************************************************************************)
(* BLEGamepad::gap_event_handler.                                          *)
(***************************************************************************)
ESP_GAP_BLE_SCAN_PARAM_SET_COMPLETE_EVT ==
  /\ issued' = <<Req("start_scanning", 0)>>
  /\ fired' = <<>>
  /\ UNCHANGED <<ctxVars, idVars, scanning_, linkVars, svcVars, charVars, seqVars>>

ESP_GAP_BLE_SCAN_START_COMPLETE_EVT(status) ==
  /\ scanning_' = IF status # OK THEN FALSE ELSE scanning_
  /\ Quiet
  /\ UNCHANGED <<ctxVars, idVars, linkVars, svcVars, charVars, seqVars>>

ESP_GAP_BLE_SCAN_STOP_COMPLETE_EVT ==
  /\ scanning_' = FALSE
  /\ Quiet
  /\ UNCHANGED <<ctxVars, idVars, linkVars, svcVars, charVars, seqVars>>

\* The handler without the test of auth_cmpl.success.
ESP_GAP_BLE_AUTH_CMPL_EVTAlways(success, closeRet) ==
  /\ issued' =
       IF connected_ /\ gattc_if_ # ESP_GATT_IF_NONE
       THEN <<Req("search_dis", 0)>> ELSE <<>>
  /\ fired' = <<>>
  /\ UNCHANGED linkVars
  /\ UNCHANGED <<ctxVars, idVars, scanning_, svcVars, charVars, seqVars>>

ESP_GAP_BLE_AUTH_CMPL_EVT(success, closeRet) ==
  /\ IF success
     THEN /\ issued' =
               IF connected_ /\ gattc_if_ # ESP_GATT_IF_NONE
               THEN <<Req("search_dis", 0)>> ELSE <<>>
          /\ fired' = <<>>
          /\ UNCHANGED linkVars
     ELSE disconnect_(closeRet, <<>>)
  /\ UNCHANGED <<ctxVars, idVars, scanning_, svcVars, charVars, seqVars>>

(***************************************************************************)
(* BLEGamepad::gap_scan_event_handler; is_hid_device is the verdict of the *)
(* advertisement filter.                                                   *)
(***************************************************************************)
\* ---- The advertisement filter of gap_scan_event_handler ----
\* AD types, the gamepad appearance and the HID service UUID.
ESP_BLE_AD_TYPE_16SRV_PART == 2
ESP_BLE_AD_TYPE_16SRV_CMPL == 3
ESP_BLE_AD_TYPE_NAME_CMPL == 9
ESP_BLE_AD_TYPE_APPEARANCE == 25
BLE_APPEARANCE_GAMEPAD == 964
HID_SERVICE_UUID == 6162
\* char name[32]: at most NameCopyMax bytes of the name are copied
NameCopyMax == 31

\* "Xbox", "Controller", "Gamepad" as bytes
NameKeywords ==
  { <<88, 98, 111, 120>>,
    <<67, 111, 110, 116, 114, 111, 108, 108, 101, 114>>,
    <<71, 97, 109, 101, 112, 97, 100>> }

Min(a, b) == IF a < b THEN a ELSE b

\* adv_data[k] with k counted from 0, as in the source
AdvByte(buf, k) == buf[k + 1]

\* The copied name as a C string: the bytes before the first NUL.
CString(bytes) ==
  IF \E k \in DOMAIN bytes : bytes[k] = 0
  THEN SubSeq(bytes, 1, (CHOOSE k \in DOMAIN bytes :
                           bytes[k] = 0 /\ \A m \in 1..(k - 1) : bytes[m] # 0) - 1)
  ELSE bytes

\* strstr(s, kw) != nullptr
StrStr(s, kw) ==
  \E k \in 1..(Len(s) - Len(kw) + 1) : SubSeq(s, k, k + Len(kw) - 1) = kw

\* One AD structure at index i (length byte already read and in range).
\* Gives the indices read and what the structure sets.
ScanStructure(buf, i, length) ==
  LET type == AdvByte(buf, i + 1)
      ncopy == Min(length - 1, NameCopyMax)
      isName == type = ESP_BLE_AD_TYPE_NAME_CMPL /\ length > 1
      name == CString([k \in 1..ncopy |-> AdvByte(buf, i + 1 + k)])
      isApp == type = ESP_BLE_AD_TYPE_APPEARANCE /\ length = 3
      isList == type \in {ESP_BLE_AD_TYPE_16SRV_CMPL, ESP_BLE_AD_TYPE_16SRV_PART}
      js == {j \in 0..(length - 2) : j % 2 = 0}
  IN [ reads |->
         {i + 1}
         \cup (IF isName THEN {i + 1 + k : k \in 1..ncopy} ELSE {})
         \cup (IF isApp THEN {i + 2, i + 3} ELSE {})
         \cup (IF isList THEN UNION {{i + 2 + j, i + 3 + j} : j \in js} ELSE {}),
       is_gamepad |->
         \/ isName /\ \E kw \in NameKeywords : StrStr(name, kw)
         \/ isApp /\ AdvByte(buf, i + 3) * 256 + AdvByte(buf, i + 2)
                       = BLE_APPEARANCE_GAMEPAD,
       is_hid_device |->
         isList /\ \E j \in js :
           AdvByte(buf, i + 3 + j) * 256 + AdvByte(buf, i + 2 + j) = HID_SERVICE_UUID ]

\* The loop over the AD structures from index i on.
RECURSIVE ScanFrom(_, _, _)
ScanFrom(buf, len, i) ==
  IF i >= len THEN [reads |-> {}, is_gamepad |-> FALSE, is_hid_device |-> FALSE]
  ELSE
    LET length == AdvByte(buf, i) IN
    IF length = 0 \/ i + 1 + length > len
    THEN [reads |-> {i}, is_gamepad |-> FALSE, is_hid_device |-> FALSE]
    ELSE
      LET here == ScanStructure(buf, i, length)
          rest == ScanFrom(buf, len, i + length + 1)
      IN [ reads |-> {i} \cup here.reads \cup rest.reads,
           is_gamepad |-> here.is_gamepad \/ rest.is_gamepad,
           is_hid_device |-> here.is_hid_device \/ rest.is_hid_device ]

\* The verdict without `is_hid_device = is_hid_device || is_gamepad`.
ScanFilterHidOnly(buf, len) ==
  LET f == ScanFrom(buf, len, 0)
  IN [reads |-> f.reads, is_hid_device |-> f.is_hid_device]

\* is_hid_device = is_hid_device || is_gamepad
ScanFilter(buf, len) ==
  LET f == ScanFrom(buf, len, 0)
  IN [reads |-> f.reads, is_hid_device |-> f.is_hid_device \/ f.is_gamepad]

\* The indices of the buffer the handler reads: when connected_ it returns
\* before it looks at the data.
ScanReads(buf, len) == IF connected_ THEN {} ELSE ScanFilter(buf, len).reads

\* The handler without the `if (!this->scanning_) return;` gate.
gap_scan_event_handlerUngated(buf, len) ==
  IF ~connected_ /\ ScanFilter(buf, len).is_hid_device
  THEN /\ scanning_' = FALSE
       /\ issued' = <<Req("stop_scanning", 0), Req("open", 0)>>
       /\ fired' = <<>>
       /\ UNCHANGED <<ctxVars, idVars, linkVars, svcVars, charVars, seqVars>>
  ELSE Ignore

gap_scan_event_handler(buf, len) ==
  IF ~connected_ /\ ScanFilter(buf, len).is_hid_device /\ scanning_
  THEN /\ scanning_' = FALSE
       /\ issued' = <<Req("stop_scanning", 0), Req("open", 0)>>
       /\ fired' = <<>>
       /\ UNCHANGED <<ctxVars, idVars, linkVars, svcVars, charVars, seqVars>>
  ELSE Ignore

(***************************************************************************)
(* BLEGamepad::gattc_event_handler, one operator per event.                *)
(***************************************************************************)
ESP_GATTC_REG_EVT(gif, status, paramRet) ==
  IF status = OK
  THEN /\ gattc_if_' = gif
       /\ start_scan_(paramRet)
       /\ issued' = StartScanReqs(paramRet)
       /\ fired' = <<>>
       /\ UNCHANGED <<gatt_registered_, failed, prev_state_, linkVars, svcVars, charVars,
                      seqVars, idVars>>
  ELSE Ignore

\* connected_ is set before disconnect_() runs, so the close is always tried.
ESP_GATTC_OPEN_EVT(gif, status, cid, encRet, closeRet, paramRet) ==
  IF ForeignIf(gif) THEN Ignore
  ELSE
    /\ IF status = OK
       THEN /\ UNCHANGED scanning_
            /\ conn_id_' = cid
            /\ IF encRet = OK
               THEN /\ connected_' = TRUE
                    /\ UNCHANGED <<active_controller_, state_>>
                    /\ issued' = <<Req("mtu", 0), Req("encrypt", 0)>>
                    /\ fired' = <<>>
               ELSE IF closeRet = OK
               THEN /\ connected_' = TRUE
                    /\ UNCHANGED <<active_controller_, state_>>
                    /\ issued' = <<Req("mtu", 0), Req("close", 0)>>
                    /\ fired' = <<>>
               ELSE /\ connected_' = FALSE
                    /\ active_controller_' = FALSE
                    /\ state_' = reset
                    /\ issued' = <<Req("mtu", 0)>>
                    /\ fired' =
                         (IF active_controller_
                          THEN <<"controller_on_disconnect">> ELSE <<>>)
                         \o <<"on_disconnect_trigger">>
       ELSE /\ connected_' = FALSE
            /\ UNCHANGED <<active_controller_, conn_id_, state_>>
            /\ start_scan_(paramRet)
            /\ issued' = StartScanReqs(paramRet)
            /\ fired' = <<>>
    /\ UNCHANGED <<ctxVars, idVars, svcVars, charVars, seqVars>>

ESP_GATTC_CLOSE_EVT(gif, paramRet) ==
  IF ForeignIf(gif) THEN Ignore
  ELSE
    /\ connected_' = FALSE
    /\ active_controller_' = FALSE
    /\ state_' = reset
    /\ UNCHANGED conn_id_
    /\ fired' =
         IF active_controller_
         THEN <<"controller_on_disconnect", "on_disconnect">> ELSE <<>>
    /\ start_scan_(paramRet)
    /\ issued' = StartScanReqs(paramRet)
    /\ UNCHANGED <<ctxVars, idVars, svcVars, charVars, seqVars>>

\* srvc is the 16-bit UUID of the service found, lo..hi its handle range.
ESP_GATTC_SEARCH_RES_EVT(gif, srvc, lo, hi) ==
  IF ForeignIf(gif) THEN Ignore
  ELSE
    /\ IF srvc = "DIS"
       THEN /\ dis_service_start_handle_' = lo
            /\ dis_service_end_handle_' = hi
            /\ UNCHANGED <<hid_service_start_handle_, hid_service_end_handle_>>
       ELSE IF srvc = "HID"
       THEN /\ hid_service_start_handle_' = lo
            /\ hid_service_end_handle_' = hi
            /\ UNCHANGED <<dis_service_start_handle_, dis_service_end_handle_>>
       ELSE UNCHANGED svcVars
    /\ Quiet
    /\ UNCHANGED <<ctxVars, idVars, scanning_, linkVars, charVars, seqVars>>

\* The budget test off by one: a fourth fallback search would be allowed.
RetriesExhaustedLate == service_discovery_retries_ > MAX_DISCOVERY_RETRIES

\* The retry budget of the DIS/HID search fallback is used up.
RetriesExhausted == service_discovery_retries_ >= MAX_DISCOVERY_RETRIES

\* One request, no callback, link and controller untouched.
Issue(r) == issued' = <<r>> /\ fired' = <<>> /\ UNCHANGED linkVars

\* "Start HOGP initialization sequence", over the handle table as the
\* enumeration has just left it.
StartHogp(info, map, pm, chars, regRet, closeRet) ==
  IF info # 0
  THEN /\ init_state_' = "READING_HID_INFO"
       /\ Issue(Req("read_char", info))
       /\ UNCHANGED current_notify_index_
  ELSE IF map # 0
  THEN /\ init_state_' = "READING_REPORT_MAP"
       /\ Issue(Req("read_char", map))
       /\ UNCHANGED current_notify_index_
  ELSE IF pm # 0
  THEN /\ init_state_' = "SETTING_PROTOCOL_MODE"
       /\ Issue(Req("write_char", pm))
       /\ UNCHANGED current_notify_index_
  ELSE enable_all_notifications_(chars, regRet, closeRet)

\* The HID-Report entries the enumeration appends: the CCC handle stays 0 when
\* the descriptor lookup fails or finds no CCC.
NewReportChars(chars, descRet) ==
  LET reps == SelectSeq(chars, LAMBDA c : c.uuid = "HID_REPORT") IN
  [i \in 1..Len(reps) |->
     [char_handle |-> reps[i].handle,
      ccc_handle |-> IF descRet = OK THEN DevCccOf(dev, reps[i].handle) ELSE 0]]

\* Handle of the last characteristic of `chars` with this UUID, else `old`.
FoundHandle(chars, uuid, old) ==
  LET S == {i \in 1..Len(chars) : chars[i].uuid = uuid}
  IN IF S = {} THEN old ELSE chars[CHOOSE i \in S : \A j \in S : j <= i].handle

\* SEARCH_CMPL, "Check if we just discovered DIS service".
DiscoverPnpId(countRet, allRet) ==
  LET chars == GetAllChar(dev, dis_service_start_handle_, dis_service_end_handle_)
      S == {i \in 1..Len(chars) : chars[i].uuid = "PNP_ID"}
      pnp == IF countRet # OK \/ Len(chars) = 0 \/ allRet # OK \/ S = {}
             THEN dis_pnp_id_handle_
             ELSE chars[CHOOSE i \in S : \A j \in S : i <= j].handle
  IN
  /\ dis_pnp_id_handle_' = pnp
  /\ IF countRet # OK \/ Len(chars) = 0 \/ allRet # OK
     THEN /\ Issue(Req("search_hid", 0))
          /\ UNCHANGED init_state_
     ELSE IF pnp # 0
     THEN /\ init_state_' = "READING_DIS_PNPID"
          /\ Issue(Req("read_char", pnp))
     ELSE /\ Issue(Req("search_hid", 0))
          /\ UNCHANGED init_state_
  /\ UNCHANGED <<hid_info_handle_, hid_report_map_handle_, protocol_mode_handle_,
                 hid_report_chars_, service_discovery_retries_,
                 current_notify_index_>>

\* SEARCH_CMPL, "HID service discovery complete".
DiscoverHidChars(countRet, allRet, descRet, regRet, closeRet) ==
  LET chars == GetAllChar(dev, hid_service_start_handle_, hid_service_end_handle_)
      info == FoundHandle(chars, "HID_INFO", hid_info_handle_)
      map == FoundHandle(chars, "REPORT_MAP", hid_report_map_handle_)
      pm == FoundHandle(chars, "PROTOCOL_MODE", protocol_mode_handle_)
      reports == hid_report_chars_ \o NewReportChars(chars, descRet)
  IN
  IF hid_service_start_handle_ = 0 \/ countRet # OK \/ Len(chars) = 0
     \/ allRet # OK
  THEN /\ disconnect_(closeRet, <<>>)
       /\ UNCHANGED <<charVars, seqVars>>
  ELSE
    /\ Len(reports) <= MaxReportChars
    /\ hid_info_handle_' = info
    /\ hid_report_map_handle_' = map
    /\ protocol_mode_handle_' = pm
    /\ hid_report_chars_' = reports
    /\ UNCHANGED <<dis_pnp_id_handle_, service_discovery_retries_>>
    /\ IF reports = <<>>
       THEN /\ disconnect_(closeRet, <<>>)
            /\ UNCHANGED <<init_state_, current_notify_index_>>
       ELSE StartHogp(info, map, pm, reports, regRet, closeRet)

ESP_GATTC_SEARCH_CMPL_EVT(gif, status, countRet, allRet, descRet, regRet, closeRet) ==
  IF ForeignIf(gif) THEN Ignore
  ELSE
    /\ UNCHANGED <<ctxVars, idVars, scanning_, svcVars>>
    /\ IF status # OK
       THEN /\ disconnect_(closeRet, <<>>)
            /\ UNCHANGED <<charVars, seqVars>>
       ELSE IF dis_service_start_handle_ = 0 /\ hid_service_start_handle_ = 0
       THEN IF RetriesExhausted
            THEN /\ disconnect_(closeRet, <<>>)
                 /\ UNCHANGED <<charVars, seqVars>>
            ELSE /\ service_discovery_retries_' = service_discovery_retries_ + 1
                 /\ Issue(Req("search_hid", 0))
                 /\ UNCHANGED <<charVars, init_state_, current_notify_index_>>
       ELSE IF dis_service_start_handle_ # 0 /\ hid_service_start_handle_ = 0
       THEN DiscoverPnpId(countRet, allRet)
       ELSE DiscoverHidChars(countRet, allRet, descRet, regRet, closeRet)

\* READ_CHAR, "Step 2: Read HID Report Map" after the HID-Information read.
AfterHidInfo(regRet, closeRet) ==
  IF hid_report_map_handle_ # 0
  THEN /\ init_state_' = "READING_REPORT_MAP"
       /\ Issue(Req("read_char", hid_report_map_handle_))
       /\ UNCHANGED current_notify_index_
  ELSE IF protocol_mode_handle_ # 0
  THEN /\ init_state_' = "SETTING_PROTOCOL_MODE"
       /\ Issue(Req("write_char", protocol_mode_handle_))
       /\ UNCHANGED current_notify_index_
  ELSE enable_all_notifications_(hid_report_chars_, regRet, closeRet)

\* READ_CHAR, "Step 3: Set Protocol Mode" after the Report-Map read.
AfterReportMap(regRet, closeRet) ==
  IF protocol_mode_handle_ # 0
  THEN /\ init_state_' = "SETTING_PROTOCOL_MODE"
       /\ Issue(Req("write_char", protocol_mode_handle_))
       /\ UNCHANGED current_notify_index_
  ELSE enable_all_notifications_(hid_report_chars_, regRet, closeRet)

\* READ_CHAR, "HOGP initialization complete - create controller instance".
CompleteInit ==
  /\ init_state_' = "COMPLETE"
  /\ service_discovery_retries_' = 0
  /\ active_controller_' = TRUE
  /\ state_' = on_connect
  /\ fired' = <<"controller_on_connect", "on_connect">>
  /\ issued' = <<>>
  /\ UNCHANGED <<connected_, conn_id_, current_notify_index_>>

\* The PnP-ID value: source byte, vendor id (2 bytes, little endian), product
\* id (2 bytes, little endian), version (2 bytes).  The ids are stored when at
\* least PnpIdLen bytes came; they are logged and never read again.
PnpIdLen == 7
StorePnpId(value) ==
  IF Len(value) >= PnpIdLen
  THEN /\ vendor_id_' = value[3] * 256 + value[2]
       /\ product_id_' = value[5] * 256 + value[4]
  ELSE UNCHANGED idVars

ESP_GATTC_READ_CHAR_EVT(gif, status, handle, value, regRet, closeRet) ==
  IF ForeignIf(gif) THEN Ignore
  ELSE
    /\ UNCHANGED <<ctxVars, scanning_, svcVars, charVars>>
    /\ IF status # OK
       THEN /\ disconnect_(closeRet, <<>>)
            /\ UNCHANGED <<seqVars, idVars>>
       ELSE IF handle = dis_pnp_id_handle_
       THEN /\ StorePnpId(value)
            /\ Issue(Req("search_hid", 0))
            /\ UNCHANGED seqVars
       ELSE IF handle = hid_info_handle_
       THEN /\ AfterHidInfo(regRet, closeRet)
            /\ UNCHANGED <<service_discovery_retries_, idVars>>
       ELSE IF handle = hid_report_map_handle_
       THEN /\ AfterReportMap(regRet, closeRet)
            /\ UNCHANGED <<service_discovery_retries_, idVars>>
       ELSE IF init_state_ = "READING_INITIAL_REPORT"
       THEN CompleteInit /\ UNCHANGED idVars
       ELSE /\ Quiet
            /\ UNCHANGED <<linkVars, seqVars, idVars>>

ESP_GATTC_WRITE_CHAR_EVT(gif, status, handle, regRet, closeRet) ==
  IF ForeignIf(gif) THEN Ignore
  ELSE
    /\ UNCHANGED <<ctxVars, idVars, scanning_, svcVars, charVars>>
    /\ IF status = OK /\ handle = protocol_mode_handle_
       THEN /\ enable_all_notifications_(hid_report_chars_, regRet, closeRet)
            /\ UNCHANGED service_discovery_retries_
       ELSE /\ Quiet
            /\ UNCHANGED <<linkVars, seqVars>>

\* The ack is for the characteristic the sequencer is registering.
IsCurrentNotify(handle) ==
  /\ current_notify_index_ < Len(hid_report_chars_)
  /\ handle = hid_report_chars_[current_notify_index_ + 1].char_handle

ESP_GATTC_REG_FOR_NOTIFY_EVT(gif, status, handle, closeRet) ==
  IF ForeignIf(gif) THEN Ignore
  ELSE
    /\ UNCHANGED <<ctxVars, idVars, scanning_, svcVars, charVars>>
    /\ IF status = OK
       THEN IF IsCurrentNotify(handle)
            THEN /\ init_state_' = "ENABLING_NOTIFICATIONS"
                 /\ Issue(Req("write_descr",
                              hid_report_chars_[current_notify_index_ + 1].ccc_handle))
                 /\ UNCHANGED <<service_discovery_retries_, current_notify_index_>>
            ELSE /\ Quiet
                 /\ UNCHANGED <<linkVars, seqVars>>
       ELSE /\ disconnect_(closeRet, <<>>)
            /\ UNCHANGED seqVars

\* "Check if this is one of our HID Report CCC descriptors".
IsHidReportCcc(handle) ==
  \E i \in 1..Len(hid_report_chars_) : hid_report_chars_[i].ccc_handle = handle

ESP_GATTC_WRITE_DESCR_EVT(gif, status, handle, regRet, closeRet) ==
  IF ForeignIf(gif) THEN Ignore
  ELSE
    /\ UNCHANGED <<ctxVars, idVars, scanning_, svcVars, charVars, service_discovery_retries_>>
    /\ IF status = OK
       THEN IF IsHidReportCcc(handle) /\ init_state_ = "ENABLING_NOTIFICATIONS"
            THEN LET next == FirstCccFrom(hid_report_chars_, current_notify_index_ + 1)
                     first == FirstCccFrom(hid_report_chars_, 0)
                 IN
                 IF next >= 0
                 THEN /\ current_notify_index_' = next
                      /\ init_state_' = "REGISTERING_NOTIFICATIONS"
                      /\ IF regRet = OK
                         THEN Issue(Req("reg_notify", hid_report_chars_[next + 1].char_handle))
                         ELSE disconnect_(closeRet, <<>>)
                 ELSE IF first >= 0
                 THEN /\ init_state_' = "READING_INITIAL_REPORT"
                      /\ Issue(Req("read_char", hid_report_chars_[first + 1].char_handle))
                      /\ UNCHANGED current_notify_index_
                 ELSE /\ Quiet
                      /\ UNCHANGED <<linkVars, init_state_, current_notify_index_>>
            ELSE /\ Quiet
                 /\ UNCHANGED <<linkVars, init_state_, current_notify_index_>>
       ELSE /\ disconnect_(closeRet, <<>>)
            /\ UNCHANGED <<init_state_, current_notify_index_>>

\* handle_notification_ with a rejected report taken as fatal for the state.
handle_notification_Fatal(value, value_len) ==
  IF ~active_controller_
  THEN fired' = <<>> /\ UNCHANGED state_
  ELSE /\ fired' = <<"controller_parse_input_report">>
       /\ state_' = IF parse_input_report(state_, value, value_len).ok
                    THEN parse_input_report(state_, value, value_len).state
                    ELSE reset

\* handle_notification_: the report goes to the controller's parser, whose
\* refusal is only logged.
handle_notification_(value, value_len) ==
  IF ~active_controller_
  THEN fired' = <<>> /\ UNCHANGED state_
  ELSE /\ fired' = <<"controller_parse_input_report">>
       /\ state_' = parse_input_report(state_, value, value_len).state

\* "Check if this is from any of our HID Report characteristics"
is_hid_report(handle) ==
  \E i \in DOMAIN hid_report_chars_ : hid_report_chars_[i].char_handle = handle

\* The event without the test of the connection id.
ESP_GATTC_NOTIFY_EVTAnyConn(gif, cid, handle, value) ==
  IF ForeignIf(gif) THEN Ignore
  ELSE
    /\ issued' = <<>>
    /\ IF is_hid_report(handle)
       THEN handle_notification_(value, Len(value))
       ELSE fired' = <<>> /\ UNCHANGED state_
    /\ UNCHANGED <<ctxVars, idVars, scanning_, connected_, active_controller_,
                   conn_id_, svcVars, charVars, seqVars>>

ESP_GATTC_NOTIFY_EVT(gif, cid, handle, value) ==
  IF ForeignIf(gif) THEN Ignore
  ELSE
    /\ issued' = <<>>
    /\ IF cid # conn_id_
       THEN fired' = <<>> /\ UNCHANGED state_
       ELSE IF is_hid_report(handle)
       THEN handle_notification_(value, Len(value))
       ELSE fired' = <<>> /\ UNCHANGED state_
    /\ UNCHANGED <<ctxVars, idVars, scanning_, connected_, active_controller_,
                   conn_id_, svcVars, charVars, seqVars>>

\* BLEGamepad::get_state(): the pointer as a sequence, empty for nullptr and
\* else holding the controller's state.
get_state == IF ~active_controller_ THEN <<>> ELSE <<state_>>

\* is_connected() with the interface alone.
is_connectedRegistered == gattc_if_ # ESP_GATT_IF_NONE

\* BLEGamepad::is_connected()
is_connected == active_controller_ /\ gattc_if_ # ESP_GATT_IF_NONE

(***************************************************************************)
(* The environment: the BLE stack delivers events to the handlers.         *)
(***************************************************************************)
\* Another GATT client application of the host.
OtherGattIf == OwnGattIf + 1

\* Requests with an answer event (the MTU request has no handler).
AsyncOps ==
  {"app_register", "set_scan_params", "start_scanning", "stop_scanning",
   "open"} \cup ConnOps

HistCap == 8 + 2 * MaxReportChars

IssuedSet == {issued'[i] : i \in {j \in DOMAIN issued' : issued'[j].op \in AsyncOps}}

\* The requests of the sequencer in issued', appended to the log (which stops
\* growing at HistCap).
Logged(log) ==
  LET new == SelectSeq(issued', LAMBDA r : r.op \in SeqOps)
      all == log \o new
  IN IF Len(all) <= HistCap THEN all ELSE SubSeq(all, 1, HistCap)

\* The stack answers the scan requests (parameters, start, stop) before it
\* delivers anything else.
ScanIdle ==
  \A r \in pending : r.op \notin {"set_scan_params", "start_scanning", "stop_scanning"}

\* Bookkeeping of a step that answers the requests `consumed` and in which
\* the stack misbehaves nf times.
Env(consumed, nf) ==
  /\ faults + nf <= MaxFaults
  /\ faults' = faults + nf
  /\ pending' = (pending \ consumed) \cup IssuedSet
  /\ UNCHANGED <<dev, linkUp, nconn>>

Bad(status) == IF status = OK THEN 0 ELSE 1
BadApi(api) == IF api = <<OK, OK>> THEN 0 ELSE 1
BadAll(status, api) == IF status = OK /\ api = <<OK, OK>> THEN 0 ELSE 1

\* A non-OK answer is a misbehaviour of the stack only for a request the
\* peer can serve; the peer never serves a request it cannot.
Refusal(r, status) == IF ValidReq(dev, r) THEN Bad(status) ELSE 0

DevHas(d, srvc) == IF srvc = "DIS" THEN d.dis # "none" ELSE d.hid
DevStart(d, srvc) == IF srvc = "DIS" THEN DevDisStart(d) ELSE DevHidStart(d)
DevEnd(d, srvc) == IF srvc = "DIS" THEN DevDisEnd(d) ELSE DevHidEnd(d)
SearchOp(srvc) == IF srvc = "DIS" THEN "search_dis" ELSE "search_hid"

\* Results of the synchronous calls of one handler run: of the call the
\* handler makes first (register-for-notify, encryption, scan parameters)
\* and of esp_ble_gattc_close.
ApiRets == {<<OK, OK>>, <<FAIL, OK>>, <<FAIL, FAIL>>, <<OK, FAIL>>}
ApiOk == {<<OK, OK>>}

\* The connection ids the stack gives out, and the id of a first connection.
ConnIds == {0, 1}
FirstConnId == {0}
\* Results of the enumeration calls of SEARCH_CMPL: attribute count, all
\* characteristics, descriptors.
EnumRets == {<<OK, OK, OK>>, <<FAIL, OK, OK>>, <<OK, FAIL, OK>>, <<OK, OK, FAIL>>}
EnumOk == {<<OK, OK, OK>>}

AllCcc(d) == \A i \in DOMAIN d.reps : d.reps[i]
SomeCcc(d) == \E i \in DOMAIN d.reps : d.reps[i]

\* The peers of the hostile-stack specification: a complete HOGP device, a
\* HID-only device without the optional characteristics whose first report
\* has no CCC, a device whose HID service has no report, and a device with
\* no service at all.
AdvDevices ==
  {d \in Devices :
     \/ d.dis = "pnp" /\ d.hid /\ d.info /\ d.map /\ d.pm
        /\ Len(d.reps) = MaxReports /\ AllCcc(d)
     \/ d.dis = "none" /\ d.hid /\ ~d.info /\ ~d.map /\ ~d.pm
        /\ Len(d.reps) = MaxReports /\ \A i \in DOMAIN d.reps : d.reps[i] = (i > 1)
     \/ d.dis = "nopnp" /\ d.hid /\ d.info /\ ~d.map /\ d.pm /\ d.reps = <<>>
     \/ d.dis = "none" /\ ~d.hid}

\* The peers of the well-behaved-stack specification: every combination of
\* the optional characteristics with one notifying report, and every report
\* layout on the complete device.
OkDevices ==
  {d \in Devices :
     \/ ~d.hid
     \/ d.reps = <<TRUE>>
     \/ d.dis = "pnp" /\ d.info /\ d.map /\ d.pm}

(***************************************************************************)
(* Events, parameterised by what the stack may answer.                     *)
(***************************************************************************)
\* The loop() iteration that registers the application; the iterations after
\* it compare frames (PadFrame).
DoLoop(Rets) ==
  /\ ScanIdle
  /\ ~failed /\ gattc_if_ = ESP_GATT_IF_NONE /\ ~gatt_registered_
  /\ \E appRet \in Rets : loop(appRet) /\ Env({}, Bad(appRet))
  /\ evt' = Ev("loop", OK, 0)

DoRegEvt(Sts, Rets) ==
  /\ ScanIdle
  /\ Req("app_register", 0) \in pending
  /\ \E status \in Sts, paramRet \in Rets :
       /\ ESP_GATTC_REG_EVT(OwnGattIf, status, paramRet)
       /\ Env({Req("app_register", 0)}, Bad(status) + Bad(paramRet))
       /\ evt' = Ev("REG", status, 0)

DoScanStart(Sts) ==
  /\ Req("start_scanning", 0) \in pending
  /\ \E status \in Sts :
       /\ ESP_GAP_BLE_SCAN_START_COMPLETE_EVT(status)
       /\ Env({Req("start_scanning", 0)}, Bad(status))
       /\ evt' = Ev("SCAN_START_COMPLETE", status, 0)

\* The stack answers the open request.
OpenAnswer(Sts, Apis, Peers, Ids) ==
  /\ Req("open", 0) \in pending
  /\ \E status \in Sts, api \in Apis, cid \in Ids :
       /\ ESP_GATTC_OPEN_EVT(OwnGattIf, status, cid, api[1], api[2], api[1])
       /\ faults + BadAll(status, api) <= MaxFaults
       /\ faults' = faults + BadAll(status, api)
       /\ IF status = OK
          THEN /\ ~linkUp
               /\ nconn < MaxConnections
               /\ \E d \in Peers : dev' = d
               /\ linkUp' = TRUE
               /\ nconn' = nconn + 1
          ELSE UNCHANGED <<dev, linkUp, nconn>>
       /\ pending' = (pending \ {Req("open", 0)}) \cup IssuedSet
       /\ evt' = Ev("OPEN", status, 0)

DoOpenEvt(Sts, Apis, Peers, Ids) ==
  /\ ScanIdle
  /\ OpenAnswer(Sts, Apis, Peers, Ids)

DoAuthCmpl(Succ, Rets) ==
  /\ ScanIdle
  /\ Req("encrypt", 0) \in pending
  /\ \E success \in Succ, closeRet \in Rets :
       /\ ESP_GAP_BLE_AUTH_CMPL_EVT(success, closeRet)
       /\ Env({Req("encrypt", 0)}, B2N(~success) + Bad(closeRet))
       /\ evt' = Ev("AUTH_CMPL", IF success THEN OK ELSE FAIL, 0)

\* The service found by a search; the search stays pending for its
\* completion event.
DoSearchRes ==
  /\ ScanIdle
  /\ \E srvc \in {"DIS", "HID"} :
    /\ Req(SearchOp(srvc), 0) \in pending
    /\ DevHas(dev, srvc)
    /\ ESP_GATTC_SEARCH_RES_EVT(OwnGattIf, srvc, DevStart(dev, srvc), DevEnd(dev, srvc))
    /\ pending' = (pending \ {Req(SearchOp(srvc), 0)}) \cup {Req(SearchOp(srvc), 1)}
    /\ evt' = Ev("SEARCH_RES", OK, DevStart(dev, srvc))
    /\ UNCHANGED envVars

DoSearchCmpl(Sts, Enums, Apis) ==
  /\ ScanIdle
  /\ \E srvc \in {"DIS", "HID"} :
    /\ \/ Req(SearchOp(srvc), 1) \in pending
       \/ Req(SearchOp(srvc), 0) \in pending /\ ~DevHas(dev, srvc)
    /\ \E status \in Sts, enum \in Enums, api \in Apis :
         /\ status = FAIL => enum = <<OK, OK, OK>> /\ api[1] = OK
         /\ ESP_GATTC_SEARCH_CMPL_EVT(OwnGattIf, status, enum[1], enum[2], enum[3],
                                      api[1], api[2])
         /\ Env({Req(SearchOp(srvc), 0), Req(SearchOp(srvc), 1)},
                Bad(status) + BadApi(api) + (IF enum = <<OK, OK, OK>> THEN 0 ELSE 1))
         /\ evt' = Ev("SEARCH_CMPL", status, 0)

\* The values a read completion can carry where the handler looks at them
\* (the PnP-ID branch): a value too short to hold the ids, and the PnP-IDs of
\* an Xbox One pad (vendor 0x045e, product 0x02e0) and of another vendor's pad
\* (vendor 0x054c, product 0x05c4).
PnpValues ==
  { <<2, 94, 4, 224, 2, 1>>,
    <<2, 94, 4, 224, 2, 1, 0>>,
    <<2, 76, 5, 196, 5, 0, 1>> }
ReadValues(status, handle) ==
  IF status = OK /\ handle = dis_pnp_id_handle_ THEN PnpValues ELSE {<<>>}

DoReadChar(Sts, Apis) ==
  /\ ScanIdle
  /\ \E r \in pending, status \in Sts, api \in Apis :
    /\ r.op = "read_char"
    /\ status = FAIL => api[1] = OK
    /\ status = OK => ValidReq(dev, r)
    /\ \E value \in ReadValues(status, r.h) :
         ESP_GATTC_READ_CHAR_EVT(OwnGattIf, status, r.h, value, api[1], api[2])
    /\ Env({r}, Refusal(r, status) + BadApi(api))
    /\ evt' = Ev("READ_CHAR", status, r.h)

DoWriteChar(Sts, Apis) ==
  /\ ScanIdle
  /\ \E r \in pending, status \in Sts, api \in Apis :
    /\ r.op = "write_char"
    /\ status = FAIL => api = <<OK, OK>>
    /\ status = OK => ValidReq(dev, r)
    /\ ESP_GATTC_WRITE_CHAR_EVT(OwnGattIf, status, r.h, api[1], api[2])
    /\ Env({r}, Refusal(r, status) + BadApi(api))
    /\ evt' = Ev("WRITE_CHAR", status, r.h)

DoRegForNotify(Sts, Rets) ==
  /\ ScanIdle
  /\ \E r \in pending, status \in Sts, closeRet \in Rets :
    /\ r.op = "reg_notify"
    /\ status = OK => closeRet = OK
    /\ ESP_GATTC_REG_FOR_NOTIFY_EVT(OwnGattIf, status, r.h, closeRet)
    /\ Env({r}, Bad(status) + Bad(closeRet))
    /\ evt' = Ev("REG_FOR_NOTIFY", status, r.h)

DoWriteDescr(Sts, Apis) ==
  /\ ScanIdle
  /\ \E r \in pending, status \in Sts, api \in Apis :
    /\ r.op = "write_descr"
    /\ status = FAIL => api[1] = OK
    /\ status = OK => ValidReq(dev, r)
    /\ ESP_GATTC_WRITE_DESCR_EVT(OwnGattIf, status, r.h, api[1], api[2])
    /\ Env({r}, Refusal(r, status) + BadApi(api))
    /\ evt' = Ev("WRITE_DESCR", status, r.h)

\* The link is closed, on request or lost; the stack drops what the
\* connection still waited for.
DoCloseEvt(Rets) ==
  /\ ScanIdle
  /\ linkUp
  /\ \E paramRet \in Rets :
       /\ ESP_GATTC_CLOSE_EVT(OwnGattIf, paramRet)
       /\ faults + Bad(paramRet) <= MaxFaults
       /\ faults' = faults + Bad(paramRet)
  /\ linkUp' = FALSE
  /\ pending' = {r \in pending : r.op \notin ConnOps} \cup IssuedSet
  /\ evt' = Ev(IF Req("close", 0) \in pending THEN "CLOSE" ELSE "LINK_LOSS", OK, 0)
  /\ UNCHANGED <<dev, nconn>>

(***************************************************************************)
(* Spec: a stack that answers every request and may misbehave MaxFaults    *)
(* times; the link can drop at any time.  The log of the sequencer's       *)
(* requests is not kept here.                                              *)
(***************************************************************************)
Loop == DoLoop(Statuses) /\ UNCHANGED <<hist, scanVars>>

RegEvt == DoRegEvt(Statuses, Statuses) /\ UNCHANGED <<hist, scanVars>>

DoScanParamSet ==
  /\ Req("set_scan_params", 0) \in pending
  /\ ESP_GAP_BLE_SCAN_PARAM_SET_COMPLETE_EVT
  /\ Env({Req("set_scan_params", 0)}, 0)
  /\ evt' = Ev("SCAN_PARAM_SET_COMPLETE", OK, 0)

ScanParamSet == DoScanParamSet /\ UNCHANGED <<hist, scanVars>>

ScanStart == DoScanStart(Statuses) /\ UNCHANGED <<hist, scanVars>>

DoScanStop ==
  /\ Req("stop_scanning", 0) \in pending
  /\ ESP_GAP_BLE_SCAN_STOP_COMPLETE_EVT
  /\ Env({Req("stop_scanning", 0)}, 0)
  /\ evt' = Ev("SCAN_STOP_COMPLETE", OK, 0)

ScanStop == DoScanStop /\ UNCHANGED <<hist, scanVars>>

\* Scan results come while the controller scans: not before a requested scan
\* has started, but still while a stop request is on its way.
ScanRunning ==
  \A r \in pending : r.op \notin {"set_scan_params", "start_scanning"}

\* The event of a scan result: of a HID device, or of another device.
ScanEv(buf, len) ==
  Ev(IF ScanFilter(buf, len).is_hid_device
     THEN "SCAN_RESULT" ELSE "SCAN_RESULT_OTHER", OK, 0)

\* A gamepad's advertisement (flags, appearance 0x03C4) and another device's
\* (flags only), each with the byte that follows it in the buffer.
SampleAdverts ==
  { [buf |-> <<2, 1, 6, 3, 25, 196, 3, 0>>, len |-> 7],
    [buf |-> <<2, 1, 6, 0>>, len |-> 3] }

\* A scan result with one of the advertisements `advs`.
DoScanResult(advs) ==
  /\ ScanRunning
  /\ \E a \in advs :
       /\ gap_scan_event_handler(a.buf, a.len)
       /\ evt' = ScanEv(a.buf, a.len)
  /\ Env({}, 0)

ScanResult == DoScanResult(SampleAdverts) /\ UNCHANGED <<hist, scanVars>>

OpenEvt == DoOpenEvt(Statuses, ApiRets, AdvDevices, FirstConnId) /\ UNCHANGED <<hist, scanVars>>

AuthCmpl == DoAuthCmpl(BOOLEAN, Statuses) /\ UNCHANGED <<hist, scanVars>>

CloseEvt == DoCloseEvt(Statuses) /\ UNCHANGED <<hist, scanVars>>

SearchRes == DoSearchRes /\ UNCHANGED <<hist, scanVars>>

SearchCmpl == DoSearchCmpl(Statuses, EnumRets, ApiRets) /\ UNCHANGED <<hist, scanVars>>

ReadChar == DoReadChar(Statuses, ApiRets) /\ UNCHANGED <<hist, scanVars>>

WriteChar == DoWriteChar(Statuses, ApiRets) /\ UNCHANGED <<hist, scanVars>>

RegForNotify == DoRegForNotify(Statuses, Statuses) /\ UNCHANGED <<hist, scanVars>>

WriteDescr == DoWriteDescr(Statuses, ApiRets) /\ UNCHANGED <<hist, scanVars>>

\* An event of another application's interface.
ForeignEvt ==
  /\ ScanIdle
  /\ linkUp
  /\ \E handle \in Handles :
       /\ ESP_GATTC_READ_CHAR_EVT(OtherGattIf, OK, handle, <<>>, OK, OK)
       /\ evt' = Ev("FOREIGN", OK, 0)
  /\ Env({}, 0)
  /\ UNCHANGED <<hist, scanVars>>

\* Stray completions: nothing the bridge waits for is answered by them.
CanStray == ScanIdle /\ linkUp

Stray == Env({}, 1) /\ UNCHANGED <<hist, scanVars>>

StrayAuthCmpl ==
  /\ CanStray
  /\ ESP_GAP_BLE_AUTH_CMPL_EVT(TRUE, OK)
  /\ evt' = Ev("AUTH_CMPL", OK, 0)
  /\ Stray

StraySearchRes ==
  /\ CanStray
  /\ \E srvc \in {"DIS", "HID"} :
       /\ DevHas(dev, srvc)
       /\ ESP_GATTC_SEARCH_RES_EVT(OwnGattIf, srvc, DevStart(dev, srvc), DevEnd(dev, srvc))
       /\ evt' = Ev("SEARCH_RES", OK, DevStart(dev, srvc))
  /\ Stray

StraySearchCmpl ==
  /\ CanStray
  /\ ESP_GATTC_SEARCH_CMPL_EVT(OwnGattIf, OK, OK, OK, OK, OK, OK)
  /\ evt' = Ev("SEARCH_CMPL", OK, 0)
  /\ Stray

StrayReadChar ==
  /\ CanStray
  /\ \E handle \in Handles :
       /\ \E value \in ReadValues(OK, handle) :
            ESP_GATTC_READ_CHAR_EVT(OwnGattIf, OK, handle, value, OK, OK)
       /\ evt' = Ev("READ_CHAR", OK, handle)
  /\ Stray

StrayWriteChar ==
  /\ CanStray
  /\ \E handle \in Handles :
       /\ ESP_GATTC_WRITE_CHAR_EVT(OwnGattIf, OK, handle, OK, OK)
       /\ evt' = Ev("WRITE_CHAR", OK, handle)
  /\ Stray

StrayRegForNotify ==
  /\ CanStray
  /\ \E handle \in Handles :
       /\ ESP_GATTC_REG_FOR_NOTIFY_EVT(OwnGattIf, OK, handle, OK)
       /\ evt' = Ev("REG_FOR_NOTIFY", OK, handle)
  /\ Stray

StrayWriteDescr ==
  /\ CanStray
  /\ \E handle \in Handles :
       /\ ESP_GATTC_WRITE_DESCR_EVT(OwnGattIf, OK, handle, OK, OK)
       /\ evt' = Ev("WRITE_DESCR", OK, handle)
  /\ Stray

Next ==
  \/ Loop \/ RegEvt \/ ScanParamSet \/ ScanStart \/ ScanStop \/ ScanResult
  \/ OpenEvt \/ AuthCmpl \/ CloseEvt \/ SearchRes \/ SearchCmpl
  \/ ReadChar \/ WriteChar \/ RegForNotify \/ WriteDescr \/ ForeignEvt
  \/ StrayAuthCmpl \/ StraySearchRes \/ StraySearchCmpl \/ StrayReadChar
  \/ StrayWriteChar \/ StrayRegForNotify \/ StrayWriteDescr

Spec == Init /\ [][Next]_vars

(***************************************************************************)
(* SpecFail: the stack of Spec without the stray completions: every event  *)
(* answers a request of the bridge, with any status, and the calls of the  *)
(* bridge may fail (MaxFaults times in all).  The peers are those of Spec  *)
(* and a complete device whose first HID-Report has no CCC descriptor.     *)
(***************************************************************************)
FailDevices ==
  AdvDevices \cup
  {d \in Devices :
     /\ d.dis = "pnp" /\ d.hid /\ d.info /\ d.map /\ d.pm
     /\ Len(d.reps) = MaxReports /\ \A i \in DOMAIN d.reps : d.reps[i] = (i > 1)}

FailOpenEvt ==
  DoOpenEvt(Statuses, ApiRets, FailDevices, FirstConnId) /\ UNCHANGED <<hist, scanVars>>

NextFail ==
  \/ Loop \/ RegEvt \/ ScanParamSet \/ ScanStart \/ ScanStop \/ ScanResult
  \/ FailOpenEvt \/ AuthCmpl \/ CloseEvt \/ SearchRes \/ SearchCmpl
  \/ ReadChar \/ WriteChar \/ RegForNotify \/ WriteDescr

SpecFail == Init /\ [][NextFail]_vars

(***************************************************************************)
(* SpecOK: a stack that answers every request with OK, and nothing else;   *)
(* the link can still drop at any time.  hist logs the sequencer's         *)
(* requests of the current connection.                                     *)
(***************************************************************************)
Log == hist' = Logged(hist) /\ UNCHANGED scanVars

OkLoop == DoLoop({OK}) /\ Log

OkRegEvt == DoRegEvt({OK}, {OK}) /\ Log

OkScanParamSet == DoScanParamSet /\ Log

OkScanStart == DoScanStart({OK}) /\ Log

OkScanStop == DoScanStop /\ Log

OkScanResult == DoScanResult(SampleAdverts) /\ Log

OkOpenEvt == DoOpenEvt({OK}, ApiOk, OkDevices, FirstConnId) /\ hist' = <<>> /\ UNCHANGED scanVars

OkAuthCmpl == DoAuthCmpl({TRUE}, {OK}) /\ Log

OkCloseEvt == DoCloseEvt({OK}) /\ Log

OkSearchRes == DoSearchRes /\ Log

OkSearchCmpl == DoSearchCmpl({OK}, EnumOk, ApiOk) /\ Log

OkReadChar == DoReadChar({OK}, ApiOk) /\ Log

OkWriteChar == DoWriteChar({OK}, ApiOk) /\ Log

OkRegForNotify == DoRegForNotify({OK}, {OK}) /\ Log

OkWriteDescr == DoWriteDescr({OK}, ApiOk) /\ Log

NextOK ==
  \/ OkLoop \/ OkRegEvt \/ OkScanParamSet \/ OkScanStart \/ OkScanStop
  \/ OkScanResult \/ OkOpenEvt \/ OkAuthCmpl \/ OkCloseEvt \/ OkSearchRes
  \/ OkSearchCmpl \/ OkReadChar \/ OkWriteChar \/ OkRegForNotify \/ OkWriteDescr

SpecOK == Init /\ [][NextOK]_vars

(***************************************************************************)
(* The advertisement filter on its own: the bridge in each of the          *)
(* situations a scan result can find it in, and one advertisement, which   *)
(* the stack delivers (again and again).                                   *)
(***************************************************************************)
\* Number of AD structures of an advertisement
MaxStructs == 2

\* AD structures (length, type, data) and debris.
AdChunks ==
  { <<2, 1, 6>>,                                      \* flags
    <<3, 25, 196, 3>>,                                \* appearance 0x03C4
    <<3, 25, 193, 3>>,                                \* appearance 0x03C1
    <<4, 25, 196, 3, 0>>,                             \* appearance, 3 bytes
    <<3, 3, 18, 24>>,                                 \* UUIDs: 0x1812
    <<3, 3, 15, 24>>,                                 \* UUIDs: 0x180F
    <<5, 2, 15, 24, 18, 24>>,                         \* UUIDs: 0x180F, 0x1812
    <<2, 3, 18>>,                                     \* UUIDs, one byte
    <<4, 2, 15, 24, 18>>,                             \* UUIDs, three bytes
    <<5, 9, 88, 98, 111, 120>>,                       \* name "Xbox"
    <<8, 9, 71, 97, 109, 101, 112, 97, 100>>,         \* name "Gamepad"
    <<11, 9, 67, 111, 110, 116, 114, 111, 108, 108, 101, 114>>,
                                                      \* name "Controller"
    <<4, 9, 75, 98, 100>>,                            \* name "Kbd"
    <<6, 9, 0, 88, 98, 111, 120>>,                    \* name NUL "Xbox"
    <<1, 9>>,                                         \* empty name
    <<34, 9>> \o [k \in 1..29 |-> 97] \o <<88, 98, 111, 120>>,
                                                      \* name, 33 bytes
    <<0>>,                                            \* terminator
    <<9>> }                                           \* a stray length byte

RECURSIVE Payloads(_)
\* The concatenations of at most n chunks
Payloads(n) ==
  IF n = 0 THEN {<<>>}
  ELSE LET shorter == Payloads(n - 1)
       IN shorter \cup {p \o c : p \in shorter, c \in AdChunks}

\* The byte that follows the advertisement in the buffer
PadBytes == {0, 24}

\* An advertisement in its buffer, with the declared length: the whole
\* payload, the payload cut by one byte, or nothing.
DeclaredLens(p) == {0, Len(p) - 1, Len(p)} \cap Nat
Adverts ==
  UNION { { [buf |-> p \o <<b>>, len |-> n] : b \in PadBytes, n \in DeclaredLens(p) } :
          p \in Payloads(MaxStructs) }

\* A peer for the situation in which the bridge is connected.
ScanPeer ==
  [dis |-> "pnp", hid |-> TRUE, info |-> TRUE, map |-> TRUE, pm |-> TRUE,
   reps |-> <<TRUE>>]

\* Scanning; a connection being opened; connected and encrypting.
ScanContexts == {"scanning", "connecting", "connected"}

InitScan ==
  /\ gattc_if_ = OwnGattIf
  /\ gatt_registered_ = TRUE
  /\ FreshMembers
  /\ \E c \in ScanContexts :
       /\ scanning_ = (c = "scanning")
       /\ connected_ = (c = "connected")
       /\ linkUp = (c = "connected")
       /\ dev = IF c = "connected" THEN ScanPeer ELSE NoDevice
       /\ nconn = IF c = "connected" THEN 1 ELSE 0
       /\ pending = IF c = "connecting" THEN {Req("open", 0)}
                    ELSE IF c = "connected" THEN {Req("encrypt", 0)}
                    ELSE {}
       /\ evt = IF c = "connecting" THEN Ev("SCAN_STOP_COMPLETE", OK, 0)
                ELSE IF c = "connected" THEN Ev("OPEN", OK, 0)
                ELSE Ev("SCAN_START_COMPLETE", OK, 0)
       /\ issued = IF c = "connected" THEN <<Req("mtu", 0), Req("encrypt", 0)>>
                   ELSE <<>>
  /\ \E a \in Adverts : ble_adv = a.buf /\ adv_data_len = a.len
  /\ adv_reads = {}
  /\ notify = NoNotify
  /\ rumble_ = NoRumble
  /\ reported = Sticks(reset)
  /\ NoInput
  /\ faults = 0
  /\ fired = <<>>
  /\ hist = <<>>

\* The stack delivers the advertisement to gap_scan_event_handler.
ScanAdvert ==
  /\ ScanRunning
  /\ gap_scan_event_handler(ble_adv, adv_data_len)
  /\ adv_reads' = ScanReads(ble_adv, adv_data_len)
  /\ evt' = ScanEv(ble_adv, adv_data_len)
  /\ Env({}, 0)
  /\ UNCHANGED <<ble_adv, adv_data_len, notify, rumble_, reported, inputVars, hist>>

\* The stack confirms that the scan has stopped.
ScanAdvertStop == DoScanStop /\ UNCHANGED <<hist, scanVars>>

NextScan == ScanAdvert \/ ScanAdvertStop

SpecScan == InitScan /\ [][NextScan]_vars

(***************************************************************************)
(* SpecPad: the stack of SpecFail with a gamepad as peer, which sends      *)
(* notifications, and with the loop() iterations of every frame.           *)
(* Notifications of any connection id arrive at any time: the events are   *)
(* queued, and a forced cleanup leaves the link up.                        *)
(***************************************************************************)
\* A gamepad with Protocol-Mode whose first HID-Report (an output report) has
\* no CCC descriptor.
PadDevices ==
  { [dis |-> "none", hid |-> TRUE, info |-> FALSE, map |-> FALSE, pm |-> TRUE,
     reps |-> <<FALSE, TRUE>>] }

\* The 16 bytes of an input report: the four stick axes and the two triggers
\* (16 bits each, little endian), the hat and the three button bytes.
Report(lx, ly, rx, ry, lt, rt, hat, b13, b14, b15) ==
  << lx % 256, lx \div 256, ly % 256, ly \div 256,
     rx % 256, rx \div 256, ry % 256, ry \div 256,
     lt % 256, lt \div 256, rt % 256, rt \div 256, hat, b13, b14, b15 >>

\* Sticks at rest; left stick X at 5 with A pressed; left stick X at 6 with
\* d-pad up and the left trigger pulled; the left trigger alone.
IdleReport == Report(32768, 32768, 32768, 32768, 0, 0, 0, 0, 0, 0)
NudgeReport == Report(34059, 32768, 32768, 32768, 0, 0, 0, 1, 0, 0)
MoveReport == Report(34317, 32768, 32768, 32768, 1023, 0, 1, 0, 0, 0)
TriggerReport == Report(32768, 32768, 32768, 32768, 1023, 0, 0, 0, 0, 0)

\* Reports of 16 bytes, one of 15, one of 17 and an empty one.
PadReports ==
  { IdleReport, NudgeReport, MoveReport, TriggerReport,
    SubSeq(NudgeReport, 1, ReportLen - 1), MoveReport \o <<0>>, <<>> }

\* The handles notifications carry: the HID-Report characteristics of the
\* gamepad and the CCC descriptor of the second.
PadHandles ==
  UNION { {DevRepChar(d, 1), DevRepChar(d, 2), DevRepCcc(d, 2)} : d \in PadDevices }

\* No notification in this step.
PadLog ==
  /\ notify' = NoNotify
  /\ UNCHANGED <<hist, ble_adv, adv_data_len, adv_reads, rumble_, reported, inputVars>>

\* A loop() iteration once the application is registered.
PadFrame ==
  /\ gatt_registered_
  /\ loop(OK)
  /\ Env({}, 0)
  /\ evt' = Ev("loop", OK, 0)
  /\ reported' = IF \E i \in DOMAIN fired' : fired'[i] = OnStick
                  THEN Sticks(state_) ELSE reported
  /\ notify' = NoNotify
  /\ UNCHANGED <<hist, ble_adv, adv_data_len, adv_reads, rumble_, inputVars>>

PadNotify ==
  /\ \E cid \in ConnIds, handle \in PadHandles, value \in PadReports :
       /\ ESP_GATTC_NOTIFY_EVT(OwnGattIf, cid, handle, value)
       /\ notify' = Notification(cid, handle, value)
       /\ evt' = Ev("NOTIFY", OK, handle)
  /\ Env({}, 0)
  /\ UNCHANGED <<hist, ble_adv, adv_data_len, adv_reads, rumble_, reported, inputVars>>

PadLoop == DoLoop(Statuses) /\ PadLog
PadRegEvt == DoRegEvt(Statuses, Statuses) /\ PadLog
PadScanParamSet == DoScanParamSet /\ PadLog
PadScanStart == DoScanStart(Statuses) /\ PadLog
PadScanStop == DoScanStop /\ PadLog
PadScanResult == DoScanResult(SampleAdverts) /\ PadLog
PadOpenEvt == DoOpenEvt(Statuses, ApiRets, PadDevices, ConnIds) /\ PadLog
PadAuthCmpl == DoAuthCmpl(BOOLEAN, Statuses) /\ PadLog
PadCloseEvt == DoCloseEvt(Statuses) /\ PadLog
PadSearchRes == DoSearchRes /\ PadLog
PadSearchCmpl == DoSearchCmpl(Statuses, EnumRets, ApiRets) /\ PadLog
PadReadChar == DoReadChar(Statuses, ApiRets) /\ PadLog
PadWriteChar == DoWriteChar(Statuses, ApiRets) /\ PadLog
PadRegForNotify == DoRegForNotify(Statuses, Statuses) /\ PadLog
PadWriteDescr == DoWriteDescr(Statuses, ApiRets) /\ PadLog

NextPad ==
  \/ PadLoop \/ PadFrame \/ PadNotify
  \/ PadRegEvt \/ PadScanParamSet \/ PadScanStart \/ PadScanStop
  \/ PadScanResult \/ PadOpenEvt \/ PadAuthCmpl \/ PadCloseEvt
  \/ PadSearchRes \/ PadSearchCmpl \/ PadReadChar \/ PadWriteChar
  \/ PadRegForNotify \/ PadWriteDescr

SpecPad == Init /\ [][NextPad]_vars

(***************************************************************************)
(* SpecLate: the stack of SpecFail with the gamepad of SpecPad as the only  *)
(* peer, which in addition may deliver a completion of a connection after  *)
(* that connection is gone: the link is down and the event carries a       *)
(* handle of the last peer.  A late completion is a misbehaviour of the    *)
(* stack; the calls the handler makes for the dead connection may succeed  *)
(* or fail.                                                                *)
(***************************************************************************)
\* A connection was opened and is gone; as for every other event, the stack
\* has answered the scan requests first.
TornDown == nconn > 0 /\ ~linkUp /\ ScanIdle

Late == Env({}, 1) /\ UNCHANGED <<hist, scanVars>>

\* The attribute handles of the last peer.
LateHandles == 1..DevLastHandle(dev)

GamepadOpenEvt ==
  DoOpenEvt(Statuses, ApiRets, PadDevices, FirstConnId) /\ UNCHANGED <<hist, scanVars>>

LateSearchRes ==
  /\ TornDown
  /\ \E srvc \in {"DIS", "HID"} :
       /\ DevHas(dev, srvc)
       /\ ESP_GATTC_SEARCH_RES_EVT(OwnGattIf, srvc, DevStart(dev, srvc), DevEnd(dev, srvc))
       /\ evt' = Ev("SEARCH_RES", OK, DevStart(dev, srvc))
  /\ Late

LateSearchCmpl ==
  /\ TornDown
  /\ \E status \in Statuses, api \in Statuses :
       /\ ESP_GATTC_SEARCH_CMPL_EVT(OwnGattIf, status, api, api, api, api, api)
       /\ evt' = Ev("SEARCH_CMPL", status, 0)
  /\ Late

LateReadChar ==
  /\ TornDown
  /\ \E status \in Statuses, handle \in LateHandles, api \in Statuses :
       /\ \E value \in ReadValues(status, handle) :
            ESP_GATTC_READ_CHAR_EVT(OwnGattIf, status, handle, value, api, api)
       /\ evt' = Ev("READ_CHAR", status, handle)
  /\ Late

LateWriteChar ==
  /\ TornDown
  /\ \E status \in Statuses, handle \in LateHandles, api \in Statuses :
       /\ ESP_GATTC_WRITE_CHAR_EVT(OwnGattIf, status, handle, api, api)
       /\ evt' = Ev("WRITE_CHAR", status, handle)
  /\ Late

LateRegForNotify ==
  /\ TornDown
  /\ \E status \in Statuses, handle \in LateHandles, api \in Statuses :
       /\ ESP_GATTC_REG_FOR_NOTIFY_EVT(OwnGattIf, status, handle, api)
       /\ evt' = Ev("REG_FOR_NOTIFY", status, handle)
  /\ Late

LateWriteDescr ==
  /\ TornDown
  /\ \E status \in Statuses, handle \in LateHandles, api \in Statuses :
       /\ ESP_GATTC_WRITE_DESCR_EVT(OwnGattIf, status, handle, api, api)
       /\ evt' = Ev("WRITE_DESCR", status, handle)
  /\ Late

NextLate ==
  \/ Loop \/ RegEvt \/ ScanParamSet \/ ScanStart \/ ScanStop \/ ScanResult
  \/ GamepadOpenEvt \/ AuthCmpl \/ CloseEvt \/ SearchRes \/ SearchCmpl
  \/ ReadChar \/ WriteChar \/ RegForNotify \/ WriteDescr
  \/ LateSearchRes \/ LateSearchCmpl \/ LateReadChar \/ LateWriteChar
  \/ LateRegForNotify \/ LateWriteDescr

SpecLate == Init /\ [][NextLate]_vars

(***************************************************************************)
(* SpecQuick: the stack of SpecOK with the gamepad of SpecPad as the only  *)
(* peer, in which the answer to the open request does not wait for the     *)
(* scan-stop request to be answered, and may be a failure.                 *)
(***************************************************************************)
QuickOpenEvt ==
  /\ OpenAnswer(Statuses, ApiOk, PadDevices, FirstConnId)
  /\ hist' = <<>>
  /\ UNCHANGED scanVars

NextQuick ==
  \/ OkLoop \/ OkRegEvt \/ OkScanParamSet \/ OkScanStart \/ OkScanStop
  \/ OkScanResult \/ QuickOpenEvt \/ OkAuthCmpl \/ OkCloseEvt \/ OkSearchRes
  \/ OkSearchCmpl \/ OkReadChar \/ OkWriteChar \/ OkRegForNotify
  \/ OkWriteDescr

SpecQuick == Init /\ [][NextQuick]_vars

(***************************************************************************)
(* SpecHost: the stack of SpecFail with the gamepad of SpecPad as the only  *)
(* peer, on a host with a second GATT client application: its registration *)
(* event and the events of its interface reach gattc_event_handler too.    *)
(***************************************************************************)
\* The other application is registered: ESP_GATTC_REG_EVT with its interface
\* and its application id, which the handler does not read.
ForeignRegEvt ==
  /\ ScanIdle
  /\ gattc_if_ # OtherGattIf
  /\ \E paramRet \in Statuses :
       /\ ESP_GATTC_REG_EVT(OtherGattIf, OK, paramRet)
       /\ Env({}, Bad(paramRet))
  /\ evt' = Ev("FOREIGN_REG", OK, 0)
  /\ UNCHANGED <<hist, scanVars>>

NextHost ==
  \/ Loop \/ RegEvt \/ ScanParamSet \/ ScanStart \/ ScanStop \/ ScanResult
  \/ GamepadOpenEvt \/ AuthCmpl \/ CloseEvt \/ SearchRes \/ SearchCmpl
  \/ ReadChar \/ WriteChar \/ RegForNotify \/ WriteDescr
  \/ ForeignEvt \/ ForeignRegEvt

SpecHost == Init /\ [][NextHost]_vars

(***************************************************************************)
(* SpecParse: the parser of XboxController on its own.  A controller       *)
(* object, fresh or used, is handed one report; the status of the event    *)
(* records the return value of parse_input_report.                         *)
(***************************************************************************)
\* Length of the longest report
MaxReportLen == 17

\* The values of a byte and of 16 bits
Bytes == 0..255
Words == 0..65535

\* Stick values: the ends, the centre and its neighbours.
StickSamples == {0, 1, 32767, 32768, 32769, 65535}

\* A report with every bit set, and one with none.
OnesReport == [k \in 1..ReportLen |-> 255]
ZeroReport == [k \in 1..ReportLen |-> 0]

\* Reports of every length up to MaxReportLen.
CutReports ==
  {SubSeq(r \o [k \in 1..(MaxReportLen - ReportLen) |-> 255], 1, n) :
     r \in {OnesReport, ZeroReport, MoveReport}, n \in 0..MaxReportLen}

\* Sticks centred, both triggers pulled, d-pad up and right, A and Xbox held:
\* 00 80 00 80 00 80 00 80 FF 03 FF 03 02 01 10 00
PressReport == Report(32768, 32768, 32768, 32768, 1023, 1023, 2, 1, 16, 0)

\* The controller is handed the report.
Handed(report) == notify = Notification(0, 0, report)

\* The report handed is one of: every value of the left stick's X axis,
\* samples of the other axes, every pair of bytes of either trigger, every
\* value of the hat byte and of each button byte (the other bytes all clear,
\* or all set), the report with A and Xbox held, the reports of every length.
ParseInput ==
  \/ \E raw \in Words :
       Handed(Report(raw, 32768, 32768, 32768, 0, 0, 0, 0, 0, 0))
  \/ \E ly \in StickSamples, rx \in StickSamples, ry \in StickSamples :
       Handed(Report(32768, ly, rx, ry, 0, 0, 0, 0, 0, 0))
  \/ \E lt \in Words :
       Handed(Report(32768, 32768, 32768, 32768, lt, 0, 0, 0, 0, 0))
  \/ \E rt \in Words :
       Handed(Report(32768, 32768, 32768, 32768, 0, rt, 0, 0, 0, 0))
  \/ \E hat \in Bytes :
       Handed(Report(32768, 32768, 32768, 32768, 0, 0, hat, 0, 0, 0))
  \/ \E b \in Bytes :
       \/ Handed(Report(32768, 32768, 32768, 32768, 0, 0, 0, b, 0, 0))
       \/ Handed(Report(32768, 32768, 32768, 32768, 0, 0, 0, 0, b, 0))
       \/ Handed(Report(32768, 32768, 32768, 32768, 0, 0, 0, 0, 0, b))
  \/ \E b \in Bytes :
       \/ Handed(Report(65535, 65535, 65535, 65535, 65535, 65535, 255, b, 255, 255))
       \/ Handed(Report(65535, 65535, 65535, 65535, 65535, 65535, 255, 255, b, 255))
       \/ Handed(Report(65535, 65535, 65535, 65535, 65535, 65535, 255, 255, 255, b))
  \/ Handed(PressReport)
  \/ \E report \in CutReports : Handed(report)

\* The state of the controller before the report: connected, and after a
\* report with every bit set.
PriorStates == {on_connect, ParsedState(on_connect, OnesReport)}

\* The bridge as constructed, with no event delivered to it.
Detached ==
  /\ gattc_if_ = ESP_GATT_IF_NONE
  /\ gatt_registered_ = FALSE
  /\ connected_ = FALSE
  /\ scanning_ = FALSE
  /\ failed = FALSE
  /\ dis_service_start_handle_ = 0
  /\ dis_service_end_handle_ = 0
  /\ dis_pnp_id_handle_ = 0
  /\ hid_service_start_handle_ = 0
  /\ hid_service_end_handle_ = 0
  /\ hid_info_handle_ = 0
  /\ hid_report_map_handle_ = 0
  /\ protocol_mode_handle_ = 0
  /\ hid_report_chars_ = <<>>
  /\ init_state_ = "IDLE"
  /\ service_discovery_retries_ = 0
  /\ current_notify_index_ = 0
  /\ active_controller_ = FALSE
  /\ conn_id_ = 0
  /\ prev_state_ = reset
  /\ vendor_id_ = 0
  /\ product_id_ = 0
  /\ ble_adv = <<0>>
  /\ adv_data_len = 0
  /\ adv_reads = {}
  /\ dev = NoDevice
  /\ linkUp = FALSE
  /\ nconn = 0
  /\ faults = 0
  /\ evt = Ev("none", OK, 0)
  /\ issued = <<>>
  /\ fired = <<>>
  /\ pending = {}
  /\ hist = <<>>

InitParse ==
  /\ Detached
  /\ rumble_ = NoRumble
  /\ reported = Sticks(reset)
  /\ NoInput
  /\ state_ \in PriorStates
  /\ ParseInput

\* parse_input_report(report, length) on the controller.
Parse ==
  /\ evt.name = "none"
  /\ LET r == parse_input_report(state_, notify.value, Len(notify.value)) IN
       /\ state_' = r.state
       /\ evt' = Ev("parse", IF r.ok THEN OK ELSE FAIL, 0)
  /\ UNCHANGED <<ctxVars, scanning_, connected_, active_controller_, conn_id_,
                 svcVars, charVars, seqVars, idVars, envVars, issued, fired,
                 pending, hist, scanVars>>

NextParse == Parse

SpecParse == InitParse /\ [][NextParse]_vars

(***************************************************************************)
(* SpecCtl: the interface of an XboxController object on its own.  The     *)
(* calls of ControllerBase are made on it in any order; the status of the  *)
(* event records the value returned (OK for true, FAIL for false).         *)
(***************************************************************************)
\* Arguments of set_rumble and set_led_color: the ends of each range.
Magnitudes == {0, 255}
Durations == {0, 65535}

\* The status that stands for a returned bool.
Returned(b) == IF b THEN OK ELSE FAIL

\* The rest of the model during a call on the controller.
CtlOnly ==
  UNCHANGED <<ctxVars, scanning_, connected_, active_controller_, conn_id_,
              svcVars, charVars, seqVars, idVars, envVars, issued, fired,
              pending, hist, ble_adv, adv_data_len, adv_reads, reported,
              inputVars>>

\* XboxController::XboxController()
InitCtl ==
  /\ Detached
  /\ state_ = reset
  /\ rumble_ = NoRumble
  /\ reported = Sticks(reset)
  /\ NoInput
  /\ notify = NoNotify

CtlConnect ==
  /\ state_' = [state_ EXCEPT !.connected = TRUE]
  /\ evt' = Ev("on_connect", OK, 0)
  /\ UNCHANGED <<rumble_, notify>>
  /\ CtlOnly

CtlDisconnect ==
  /\ state_' = on_disconnect
  /\ evt' = Ev("on_disconnect", OK, 0)
  /\ UNCHANGED <<rumble_, notify>>
  /\ CtlOnly

CtlParse ==
  /\ \E report \in PadReports :
       LET r == parse_input_report(state_, report, Len(report)) IN
         /\ state_' = r.state
         /\ notify' = Notification(0, 0, report)
         /\ evt' = Ev("parse", Returned(r.ok), 0)
  /\ UNCHANGED rumble_
  /\ CtlOnly

CtlSetRumble ==
  /\ \E weak \in Magnitudes, strong \in Magnitudes, duration \in Durations :
       LET r == set_rumble(weak, strong, duration) IN
         /\ rumble_' = r.rumble
         /\ evt' = Ev("set_rumble", Returned(r.ok), 0)
  /\ UNCHANGED <<state_, notify>>
  /\ CtlOnly

CtlSetLedColor ==
  /\ \E r \in Magnitudes, g \in Magnitudes, b \in Magnitudes :
       evt' = Ev("set_led_color", Returned(set_led_color(r, g, b)), 0)
  /\ UNCHANGED <<state_, rumble_, notify>>
  /\ CtlOnly

CtlSupportsRumble ==
  /\ evt' = Ev("supports_rumble", Returned(supports_rumble), 0)
  /\ UNCHANGED <<state_, rumble_, notify>>
  /\ CtlOnly

CtlSupportsLed ==
  /\ evt' = Ev("supports_led", Returned(supports_led), 0)
  /\ UNCHANGED <<state_, rumble_, notify>>
  /\ CtlOnly

NextCtl ==
  \/ CtlConnect \/ CtlDisconnect \/ CtlParse
  \/ CtlSetRumble \/ CtlSetLedColor
  \/ CtlSupportsRumble \/ CtlSupportsLed

SpecCtl == InitCtl /\ [][NextCtl]_vars

(***************************************************************************)
(* SpecQueue: the InputHandler of the game runner (input_handler.cpp).     *)
(* Two producer tasks call push_event and the game loop calls pop_event,   *)
(* in any interleaving.  An event is the number of its push_event call.    *)
(* A producer that finds the mutex taken blocks; the task that gives the   *)
(* mutex hands it to the producer that has waited longest, and a wait that *)
(* lasts longer than its timeout ends without the mutex.                   *)
(***************************************************************************)
MAX_QUEUE_SIZE == 32

\* Calls of push_event
MaxEvents == 33

\* The rest of the model during a call on the InputHandler.
QueueOnly ==
  UNCHANGED <<ctxVars, scanning_, linkVars, svcVars, charVars, seqVars, idVars,
              dev, linkUp, nconn, issued, fired, pending, hist, ble_adv,
              adv_data_len, adv_reads, notify, rumble_, reported>>

\* InputHandler::InputHandler(): xSemaphoreCreateMutex() gives a mutex or
\* nullptr.
InitQueue ==
  /\ Detached
  /\ state_ = reset
  /\ notify = NoNotify
  /\ rumble_ = NoRumble
  /\ reported = Sticks(reset)
  /\ queue_ = <<>>
  /\ mutex_ \in {"free", "null"}
  /\ task = [t \in Tasks |-> Outside]
  /\ pushed = 0

\* The task returns from its call.
Return(t) == task' = [task EXCEPT ![t] = Outside]

\* The producers blocked on the mutex.
Waiting == {u \in Producers : task[u].pc = "push_wait"}

\* xSemaphoreGive(mutex_) by task t, which then returns: the mutex goes to the
\* producer that has waited longest, if one waits.
Give(t) ==
  IF Waiting = {}
  THEN /\ mutex_' = "free"
       /\ Return(t)
  ELSE \E u \in Waiting :
         /\ \A w \in Waiting : task[u].event <= task[w].event
         /\ mutex_' = u
         /\ task' = [task EXCEPT ![t] = Outside, ![u].pc = "push_locked"]

\* The queue after the body of push_event, which runs with the mutex held.
PushBody(event) ==
  IF Len(queue_) < MAX_QUEUE_SIZE THEN Append(queue_, event) ELSE queue_

\* push_event(event), up to xSemaphoreTake: without a mutex the call returns,
\* with the mutex free the task takes it, and else the task blocks.
push_event(t) ==
  /\ t \in Producers
  /\ task[t].pc = "outside"
  /\ pushed < MaxEvents
  /\ pushed' = pushed + 1
  /\ IF mutex_ = "null"
     THEN /\ Return(t)
          /\ evt' = Ev("push_event", FAIL, pushed')
          /\ UNCHANGED mutex_
     ELSE IF mutex_ = "free"
     THEN /\ mutex_' = t
          /\ task' = [task EXCEPT ![t] = [pc |-> "push_locked", event |-> pushed']]
          /\ evt' = Ev("push_take", OK, pushed')
     ELSE /\ task' = [task EXCEPT ![t] = [pc |-> "push_wait", event |-> pushed']]
          /\ evt' = Ev("push_wait", OK, pushed')
          /\ UNCHANGED mutex_
  /\ UNCHANGED <<queue_, faults>>
  /\ QueueOnly

\* The mutex stays taken for the 10 ms of the wait: "Failed to acquire mutex
\* for push_event".
PushTimeout(t) ==
  /\ task[t].pc = "push_wait"
  /\ mutex_ # "free"
  /\ faults < MaxFaults
  /\ faults' = faults + 1
  /\ Return(t)
  /\ evt' = Ev("push_event", FAIL, task[t].event)
  /\ UNCHANGED <<queue_, mutex_, pushed>>
  /\ QueueOnly

\* The size test, the push and xSemaphoreGive.
PushLocked(t) ==
  /\ task[t].pc = "push_locked"
  /\ queue_' = PushBody(task[t].event)
  /\ Give(t)
  /\ evt' = Ev("push_event", IF Len(queue_) < MAX_QUEUE_SIZE THEN OK ELSE FAIL,
               task[t].event)
  /\ UNCHANGED <<pushed, faults>>
  /\ QueueOnly

\* pop_event(event), up to xSemaphoreTake with no wait: without a mutex, or
\* with the mutex taken, the call returns false.
pop_event ==
  /\ task["game"].pc = "outside"
  /\ IF mutex_ = "free"
     THEN /\ mutex_' = "game"
          /\ task' = [task EXCEPT !["game"].pc = "pop_locked"]
          /\ evt' = Ev("pop_take", OK, 0)
     ELSE /\ evt' = Ev("pop_event", FAIL, 0)
          /\ UNCHANGED <<mutex_, task>>
  /\ UNCHANGED <<queue_, pushed, faults>>
  /\ QueueOnly

\* The front of the queue is copied out and popped, if there is one, and
\* xSemaphoreGive.
PopLocked ==
  /\ task["game"].pc = "pop_locked"
  /\ IF queue_ # <<>>
     THEN /\ queue_' = Tail(queue_)
          /\ evt' = Ev("pop_event", OK, Head(queue_))
     ELSE /\ evt' = Ev("pop_event", FAIL, 0)
          /\ UNCHANGED queue_
  /\ Give("game")
  /\ UNCHANGED <<pushed, faults>>
  /\ QueueOnly

Push == \E t \in Producers : push_event(t)
Timeout == \E t \in Producers : PushTimeout(t)
Locked == \E t \in Producers : PushLocked(t)

NextQueue == Push \/ Timeout \/ Locked \/ pop_event \/ PopLocked

SpecQueue == InitQueue /\ [][NextQueue]_vars

(***************************************************************************)
(* Vocabulary of the properties.                                           *)
(***************************************************************************)
InSeq(x, seq) == \E i \in DOMAIN seq : seq[i] = x

IsPrefix(a, b) == Len(a) <= Len(b) /\ \A i \in DOMAIN a : a[i] = b[i]

\* The device has everything the full HOGP sequence touches.
FullDevice(d) == d.hid /\ d.info /\ d.map /\ d.pm /\ SomeCcc(d)

\* The first HID-Report characteristic of the device with a CCC descriptor.
FirstCccChar(d) ==
  DevRepChar(d, CHOOSE i \in DOMAIN d.reps :
                  d.reps[i] /\ \A j \in DOMAIN d.reps : d.reps[j] => i <= j)

RECURSIVE NotifySteps(_, _)
\* Register and enable, for the CCC-bearing ones of the first n reports.
NotifySteps(d, n) ==
  IF n = 0 THEN <<>>
  ELSE NotifySteps(d, n - 1) \o
       (IF d.reps[n]
        THEN <<Req("reg_notify", DevRepChar(d, n)), Req("write_descr", DevRepCcc(d, n))>>
        ELSE <<>>)

\* The requests of notification enabling and priming the device calls for.
ExpectedNotify(d) ==
  IF SomeCcc(d)
  THEN NotifySteps(d, Len(d.reps)) \o <<Req("read_char", FirstCccChar(d))>>
  ELSE <<>>

\* The requests of the whole sequence on a full device.
ExpectedHogp(d) ==
  <<Req("read_char", DevInfo(d)), Req("read_char", DevMap(d)),
    Req("write_char", DevPm(d))>> \o ExpectedNotify(d)

\* The log without discovery: the searches and the PnP-ID read.
HogpPart(log) ==
  SelectSeq(log, LAMBDA r :
    /\ r.op \notin {"search_dis", "search_hid"}
    /\ r # Req("read_char", dis_pnp_id_handle_))

\* The log from the first registration on.
NotifyPart(log) ==
  LET S == {i \in DOMAIN log : log[i].op \in {"reg_notify", "write_descr"}}
  IN IF S = {} THEN <<>>
     ELSE SubSeq(log, CHOOSE i \in S : \A j \in S : i <= j, Len(log))

\* The sequencer's requests the stack has not answered yet.
Outstanding == {r \in pending : r.op \in SeqOps}

\* The completions the sequencer waits for, and their events.
AwaitOps == {"read_char", "write_char", "write_descr", "reg_notify"}
Awaited == {r \in pending : r.op \in AwaitOps}
CompletionEvents == {"READ_CHAR", "WRITE_CHAR", "WRITE_DESCR", "REG_FOR_NOTIFY"}

\* The handler that just ran asked for the link to be closed, or gave it up.
DisconnectInitiated == InSeq(Req("close", 0), issued') \/ ~connected_'

\* Discovery and sequencer state as constructed.
DiscoveryReset ==
  /\ current_notify_index_ = 0
  /\ dis_service_start_handle_ = 0 /\ dis_service_end_handle_ = 0
  /\ dis_pnp_id_handle_ = 0
  /\ hid_service_start_handle_ = 0 /\ hid_service_end_handle_ = 0
  /\ hid_info_handle_ = 0 /\ hid_report_map_handle_ = 0
  /\ protocol_mode_handle_ = 0
  /\ hid_report_chars_ = <<>>

\* The moves of init_state_ the full sequence is made of.
SequenceSteps ==
  {<<"IDLE", "READING_DIS_PNPID">>, <<"IDLE", "READING_HID_INFO">>,
   <<"READING_DIS_PNPID", "READING_HID_INFO">>,
   <<"READING_HID_INFO", "READING_REPORT_MAP">>,
   <<"READING_REPORT_MAP", "SETTING_PROTOCOL_MODE">>,
   <<"SETTING_PROTOCOL_MODE", "REGISTERING_NOTIFICATIONS">>,
   <<"REGISTERING_NOTIFICATIONS", "ENABLING_NOTIFICATIONS">>,
   <<"ENABLING_NOTIFICATIONS", "REGISTERING_NOTIFICATIONS">>,
   <<"ENABLING_NOTIFICATIONS", "READING_INITIAL_REPORT">>,
   <<"READING_INITIAL_REPORT", "COMPLETE">>}

(***************************************************************************)
(* The HOGP sequence (SpecOK: every completion is OK).                     *)
(***************************************************************************)
\* C1: on a device with HID-Information, Report-Map, Protocol-Mode and a
\* CCC-bearing report, with every completion OK, the requests go out in the
\* order read HID-Information, read Report-Map, write Protocol-Mode,
\* register/enable notifications, priming read; one request is outstanding at
\* a time; and init_state_ moves only along READING_HID_INFO,
\* READING_REPORT_MAP, SETTING_PROTOCOL_MODE, REGISTERING_NOTIFICATIONS,
\* ENABLING_NOTIFICATIONS, READING_INITIAL_REPORT, COMPLETE.
\* Holds for the first connection only: a later connection starts from the
\* state and the handles the earlier one left behind.
C1_SequenceInOrder ==
  /\ []((linkUp /\ FullDevice(dev)) =>
          /\ IsPrefix(HogpPart(hist), ExpectedHogp(dev))
          /\ Cardinality(Outstanding) <= 1)
  /\ [][(linkUp' /\ FullDevice(dev') /\ init_state_' # init_state_)
          => <<init_state_, init_state_'>> \in SequenceSteps]_vars

\* C2: the CCC-bearing HID-Report characteristics of the device are handled
\* one at a time in discovery order, register-for-notify then the CCC write,
\* each exactly once; reports without CCC are skipped; the priming read comes
\* after the last CCC write.  With every completion OK, the requests from the
\* first registration on are a prefix of that sequence.
\* Holds for the first connection only: hid_report_chars_ keeps the entries of
\* earlier connections.
C2_NotificationsOneAtATime ==
  linkUp =>
    /\ IsPrefix(NotifyPart(hist), ExpectedNotify(dev))
    /\ Cardinality(Outstanding) <= 1

\* C10: with every request answered OK, on a device with a CCC-bearing report
\* and any combination of the optional characteristics, the bridge goes on to
\* COMPLETE: until the controller exists it never asks for a disconnect, never
\* drops the connection, and always has a request outstanding to wait for.
\* Holds for the first connection only.
C10_NeverGivesUpNorStalls ==
  [][(/\ linkUp /\ connected_ /\ SomeCcc(dev) /\ ~active_controller_
      /\ evt'.name # "LINK_LOSS")
     => /\ ~InSeq(Req("close", 0), issued')
        /\ connected_'
        /\ active_controller_' \/ \E r \in pending' : r.op \in SeqOps \cup {"encrypt"}]_vars

(***************************************************************************)
(* Completions the sequencer does not wait for (Spec).                     *)
(***************************************************************************)
\* C3: init_state_ becomes COMPLETE, the controller is created and on-connect
\* fires only in one step: the OK completion of the outstanding priming read,
\* which targets the first CCC-bearing report of the device, taken in
\* READING_INITIAL_REPORT, with no controller before it and the two callbacks
\* fired once.
\* Does not hold: in READING_INITIAL_REPORT any OK read completion that is not
\* for the PnP-ID, HID-Information or Report-Map handle completes.
C3_CompleteOnlyOnPrimingRead ==
  [][((init_state_' = "COMPLETE" /\ init_state_ # "COMPLETE")
        \/ InSeq("on_connect", fired')
        \/ (active_controller_' /\ ~active_controller_))
     => /\ SomeCcc(dev)
        /\ evt' = Ev("READ_CHAR", OK, FirstCccChar(dev))
        /\ Req("read_char", evt'.handle) \in pending
        /\ init_state_ = "READING_INITIAL_REPORT"
        /\ init_state_' = "COMPLETE"
        /\ ~active_controller_ /\ active_controller_'
        /\ fired' = <<"controller_on_connect", "on_connect">>]_vars

\* C4: while the sequencer waits for a completion, an OK completion whose
\* handle is not an awaited one leaves init_state_, current_notify_index_ and
\* the handle table unchanged, issues no request and creates no controller.
\* Does not hold.
C4_MismatchedCompletionIgnored ==
  [][(/\ Awaited # {}
      /\ evt'.name \in CompletionEvents /\ evt'.status = OK
      /\ evt'.handle \notin {r.h : r \in Awaited})
     => /\ UNCHANGED <<init_state_, current_notify_index_, svcVars, charVars>>
        /\ issued' = <<>>
        /\ active_controller_' = active_controller_]_vars

\* An OK completion for a known handle with no such request outstanding: a
\* duplicate, or one that comes after its step.
LateCompletion(e) ==
  /\ e.status = OK
  /\ \/ /\ e.name = "READ_CHAR"
        /\ e.handle \in {dis_pnp_id_handle_, hid_info_handle_, hid_report_map_handle_}
        /\ Req("read_char", e.handle) \notin pending
     \/ /\ e.name = "WRITE_CHAR"
        /\ e.handle = protocol_mode_handle_
        /\ Req("write_char", e.handle) \notin pending
     \/ /\ e.name = "REG_FOR_NOTIFY"
        /\ \E i \in DOMAIN hid_report_chars_ : hid_report_chars_[i].char_handle = e.handle
        /\ Req("reg_notify", e.handle) \notin pending

\* C5: a duplicated or late OK completion for a known handle (PnP-ID,
\* HID-Information or Report-Map read, Protocol-Mode write ack,
\* register-for-notify ack) does not change init_state_ and issues nothing.
\* Does not hold.
C5_LateCompletionNotApplied ==
  [][LateCompletion(evt') => (init_state_' = init_state_ /\ issued' = <<>>)]_vars

\* C6: on a live connection, every non-OK read, write, descriptor-write or
\* register-for-notify completion, and every completion handler that turns to
\* REGISTERING_NOTIFICATIONS without a registration accepted, initiates a
\* disconnect.
\* Does not hold for the Protocol-Mode write.
C6_FailureDisconnects ==
  [][(/\ connected_ /\ linkUp /\ evt'.name \in CompletionEvents
      /\ \/ evt'.status = FAIL
         \/ /\ init_state_' = "REGISTERING_NOTIFICATIONS"
            /\ init_state_ # "REGISTERING_NOTIFICATIONS"
            /\ ~\E i \in DOMAIN issued' : issued'[i].op = "reg_notify")
     => DisconnectInitiated]_vars

(***************************************************************************)
(* State across connections (SpecOK).                                      *)
(***************************************************************************)
\* C7: when a scan result is accepted (the connection request goes out),
\* current_notify_index_ is 0, every discovery handle is 0 and
\* hid_report_chars_ is empty.
\* Does not hold after the first connection.
C7_StateResetBeforeNextScanResult ==
  [][(evt'.name = "SCAN_RESULT" /\ InSeq(Req("open", 0), issued'))
       => DiscoveryReset']_vars

\* C8: at the moment a connection is opened, init_state_ is IDLE and
\* service_discovery_retries_ is 0.
\* Does not hold after the first connection.
C8_ConnectionStartsFromTheTop ==
  [][(evt'.name = "OPEN" /\ evt'.status = OK)
       => (init_state_' = "IDLE" /\ service_discovery_retries_' = 0)]_vars

(***************************************************************************)
(* The fallback search (Spec).                                             *)
(***************************************************************************)
\* C9: service_discovery_retries_ never exceeds 3; on a discovery-complete
\* event with status OK and neither the DIS nor the HID start handle captured,
\* the bridge issues one HID search and increments the counter while it is
\* below 3, and with the counter at 3 issues no search, leaves the counter
\* and initiates a disconnect of the connection it holds.
C9_RetryBudget ==
  /\ [](service_discovery_retries_ <= MAX_DISCOVERY_RETRIES)
  /\ [][(/\ evt'.name = "SEARCH_CMPL" /\ evt'.status = OK
         /\ dis_service_start_handle_ = 0 /\ hid_service_start_handle_ = 0)
        => IF service_discovery_retries_ < MAX_DISCOVERY_RETRIES
           THEN /\ service_discovery_retries_' = service_discovery_retries_ + 1
                /\ issued' = <<Req("search_hid", 0)>>
           ELSE /\ service_discovery_retries_' = service_discovery_retries_
                /\ \A i \in DOMAIN issued' : issued'[i].op # "search_hid"
                /\ connected_ => DisconnectInitiated]_vars

\* The budget is used up and the discovery-complete handler has asked for the
\* link to be closed.
C9_BudgetExhausted ==
  /\ evt = Ev("SEARCH_CMPL", OK, 0)
  /\ dis_service_start_handle_ = 0 /\ hid_service_start_handle_ = 0
  /\ service_discovery_retries_ = MAX_DISCOVERY_RETRIES
  /\ connected_
  /\ issued = <<Req("close", 0)>>

(***************************************************************************)
(* Discovery paths.                                                        *)
(***************************************************************************)
\* C11 (SpecOK): on a device without the Device-Information service, with a
\* HID service and a CCC-bearing report, and every completion OK, init_state_
\* never has the value READING_DIS_PNPID while the connection is up, and the
\* bridge goes on to COMPLETE (it never asks for a disconnect, see C10).
\* Holds for the first connection only: a later connection finds the state
\* and the PnP-ID handle of the earlier one.
C11_NoPnpStateWithoutDis ==
  /\ []((linkUp /\ connected_ /\ dev.dis = "none" /\ SomeCcc(dev))
          => init_state_ # "READING_DIS_PNPID")
  /\ [][(/\ linkUp /\ connected_ /\ dev.dis = "none" /\ SomeCcc(dev)
         /\ ~active_controller_ /\ evt'.name # "LINK_LOSS")
        => ~InSeq(Req("close", 0), issued')]_vars

(***************************************************************************)
(* Scanning and connection attempts.                                       *)
(***************************************************************************)
\* C12 (Spec): at most one connection attempt per scan.  A GATT open is
\* issued only by a HID scan result that arrives while scanning_ is set and
\* no open is outstanding, and that step clears scanning_; while the open is
\* outstanding scanning_ stays clear, and a further HID scan result issues
\* neither a stop-scan nor an open.
C12_OneAttemptPerScan ==
  /\ [](Req("open", 0) \in pending => ~scanning_)
  /\ [][/\ InSeq(Req("open", 0), issued')
            => /\ evt'.name = "SCAN_RESULT"
               /\ scanning_ /\ ~scanning_'
               /\ Req("open", 0) \notin pending
               /\ issued' = <<Req("stop_scanning", 0), Req("open", 0)>>
        /\ (evt'.name = "SCAN_RESULT" /\ Req("open", 0) \in pending)
            => issued' = <<>>]_vars

\* A HID scan result was delivered while the open was outstanding, before
\* the stack had stopped the scan, and nothing was issued.
C12_RepeatedResultIgnored ==
  /\ evt.name = "SCAN_RESULT"
  /\ pending = {Req("stop_scanning", 0), Req("open", 0)}
  /\ issued = <<>>
  /\ ~scanning_ /\ ~connected_

\* C13 (Spec): a fatal failure of a connection ends in a restart of scanning.
\* Safety form: when a handler other than the close event's ends the
\* connection (disconnect_ after a failure), the bridge is on its way back to
\* scanning: scanning_ is set, or a close, a scan-parameter or a scan-start
\* request is outstanding whose completion restarts the scan.
C13_FailureRestartsScan ==
  [][(connected_ /\ ~connected_' /\ evt'.name \notin {"CLOSE", "LINK_LOSS"})
       => \/ scanning_'
          \/ \E r \in pending' :
               r.op \in {"close", "set_scan_params", "start_scanning"}]_vars

(***************************************************************************)
(* Validation of the HID service.                                          *)
(***************************************************************************)
\* C14 (SpecOK): on the first connection, to a device whose HID service has
\* HID-Report characteristics of which none has a CCC descriptor, with every
\* completion OK, the bridge never asks for a disconnect.
C14_NoCccNoDisconnect ==
  [][(/\ linkUp /\ connected_ /\ nconn = 1
      /\ dev.hid /\ dev.reps # <<>> /\ ~SomeCcc(dev))
     => ~InSeq(Req("close", 0), issued')]_vars

\* The states of the HOGP sequence proper.
HogpStates ==
  {"READING_HID_INFO", "READING_REPORT_MAP", "SETTING_PROTOCOL_MODE",
   "REGISTERING_NOTIFICATIONS", "ENABLING_NOTIFICATIONS",
   "READING_INITIAL_REPORT", "COMPLETE"}

\* C15 (SpecOK): while the bridge is connected to a device whose HID service
\* has no HID-Report characteristic, no step of the HOGP sequence is issued
\* (no read other than the PnP-ID read, no characteristic write, no
\* notification registration, no descriptor write) and init_state_ is not
\* moved to a state of the sequence.
C15_NoReportNoSequence ==
  [][(linkUp /\ connected_ /\ dev.hid /\ dev.reps = <<>>)
     => /\ \A i \in DOMAIN issued' :
             /\ issued'[i].op \notin {"write_char", "reg_notify", "write_descr"}
             /\ issued'[i].op = "read_char" => issued'[i].h = DevPnp(dev)
        /\ init_state_' \in HogpStates => init_state_' = init_state_]_vars

(***************************************************************************)
(* Handles.                                                                *)
(***************************************************************************)
\* The requests that name an attribute handle.
HandleOps == {"read_char", "write_char", "write_descr", "reg_notify"}

SearchIssued ==
  \E i \in DOMAIN issued' : issued'[i].op \in {"search_dis", "search_hid"}

\* C17 (SpecFail): pairing gates discovery.  While the encryption requested
\* at the open event is unanswered, only a successful authentication-complete
\* issues a service search; the Device-Information search is issued by that
\* event and by no other; a successful authentication-complete while connected
\* issues exactly the Device-Information search; a failed one initiates a
\* disconnect and issues no search.
C17_PairingGatesDiscovery ==
  [][/\ (SearchIssued /\ Req("encrypt", 0) \in pending)
          => (evt'.name = "AUTH_CMPL" /\ evt'.status = OK)
     /\ InSeq(Req("search_dis", 0), issued')
          => (evt'.name = "AUTH_CMPL" /\ evt'.status = OK)
     /\ (evt'.name = "AUTH_CMPL" /\ evt'.status = OK /\ connected_)
          => issued' = <<Req("search_dis", 0)>>
     /\ (evt'.name = "AUTH_CMPL" /\ evt'.status # OK)
          => (~SearchIssued /\ (connected_ => DisconnectInitiated))]_vars

\* An authentication-complete reporting failure has been handled on an open
\* connection: the close is requested and no search is outstanding.
C17_AuthFailureDisconnects ==
  /\ evt.name = "AUTH_CMPL" /\ evt.status # OK
  /\ linkUp /\ connected_
  /\ issued = <<Req("close", 0)>>
  /\ pending = {Req("close", 0)}

\* The completion of the search that found the Device-Information service
\* of the current device.
DisSearchCompletes ==
  /\ linkUp /\ connected_
  /\ Req("search_dis", 1) \in pending
  /\ evt'.name = "SEARCH_CMPL" /\ evt'.status = OK

\* The completion of the PnP-ID read of the current device.
PnpReadCompletes ==
  /\ linkUp /\ connected_
  /\ DevPnp(dev) # 0
  /\ pending = {Req("read_char", DevPnp(dev))}
  /\ init_state_ = "READING_DIS_PNPID"
  /\ evt'.name = "READ_CHAR" /\ evt'.status = OK

\* C18 (SpecOK): after the Device-Information service is discovered the HID
\* search comes next: the completion of the search issues it at once when the
\* device has no PnP-ID and issues the PnP-ID read otherwise, and the
\* completion of that read issues the HID search.  The value read has no
\* influence: whatever it is, the completion of the PnP-ID read issues the
\* HID search and changes nothing but vendor_id_ and product_id_.
C18_HidSearchFollowsDis ==
  [][/\ DisSearchCompletes
          => issued' = IF DevPnp(dev) # 0
                       THEN <<Req("read_char", DevPnp(dev))>>
                       ELSE <<Req("search_hid", 0)>>
     /\ PnpReadCompletes
          => /\ issued' = <<Req("search_hid", 0)>>
             /\ UNCHANGED <<ctxVars, scanning_, linkVars, svcVars, charVars, seqVars>>]_vars

(***************************************************************************)
(* The advertisement filter (SpecScan).                                    *)
(***************************************************************************)
\* C19 (SpecScan): whatever the payload and the declared length, the filter
\* reads no byte of the buffer at an index at or beyond adv_data_len.
C19_NoReadBeyondLength == \A k \in adv_reads : k < adv_data_len

\* The advertisement as the scan result declares it.
AdvPayload == SubSeq(ble_adv, 1, adv_data_len)

\* An advertising packet holds NameCopyMax bytes: the length byte of an AD
\* structure in it counts at most the bytes after itself.
MaxAdLength == NameCopyMax - 1

RECURSIVE AdStructures(_)
\* The AD structures [type, data] a payload consists of; a piece that is no
\* AD structure is kept as type -1.  Zero bytes after the last structure are
\* padding.
AdStructures(p) ==
  IF \A k \in DOMAIN p : p[k] = 0 THEN <<>>
  ELSE IF p[1] = 0 \/ p[1] > MaxAdLength \/ p[1] + 1 > Len(p)
  THEN <<[type |-> -1, data |-> p]>>
  ELSE <<[type |-> p[2], data |-> SubSeq(p, 3, p[1] + 1)]>>
       \o AdStructures(SubSeq(p, p[1] + 2, Len(p)))

\* The 16-bit values of a list of little-endian pairs
Uuids16(data) ==
  {data[2 * k] * 256 + data[2 * k - 1] : k \in 1..(Len(data) \div 2)}

\* A well-formed structure: of a known layout where the type fixes one.
WellFormedStructure(st) ==
  /\ st.type # -1
  /\ st.type = ESP_BLE_AD_TYPE_APPEARANCE => Len(st.data) = 2
  /\ st.type \in {ESP_BLE_AD_TYPE_16SRV_CMPL, ESP_BLE_AD_TYPE_16SRV_PART}
       => Len(st.data) % 2 = 0
  /\ st.type = ESP_BLE_AD_TYPE_NAME_CMPL
       => \A k \in DOMAIN st.data : st.data[k] # 0

WellFormed(p) ==
  LET sts == AdStructures(p) IN \A k \in DOMAIN sts : WellFormedStructure(sts[k])

\* Appearance 0x03C4, or 0x1812 in a list of 16-bit service UUIDs, or a
\* keyword in the complete local name.
Qualifies(p) ==
  LET sts == AdStructures(p) IN
  \E k \in DOMAIN sts :
    \/ /\ sts[k].type = ESP_BLE_AD_TYPE_APPEARANCE
       /\ Uuids16(sts[k].data) = {BLE_APPEARANCE_GAMEPAD}
    \/ /\ sts[k].type \in {ESP_BLE_AD_TYPE_16SRV_CMPL, ESP_BLE_AD_TYPE_16SRV_PART}
       /\ HID_SERVICE_UUID \in Uuids16(sts[k].data)
    \/ /\ sts[k].type = ESP_BLE_AD_TYPE_NAME_CMPL
       /\ \E kw \in NameKeywords : StrStr(sts[k].data, kw)

\* C20 (SpecScan): a well-formed advertisement delivered while the bridge is
\* scanning and not connected is accepted (scanning_ cleared, stop-scan and
\* GATT open issued) if and only if it has an appearance structure equal to
\* 0x03C4, or a complete or partial list of 16-bit service UUIDs containing
\* 0x1812, or a complete local name containing "Xbox", "Controller" or
\* "Gamepad"; a rejected one changes no state of the bridge and issues nothing.
C20_AcceptIffQualifies ==
  [][(/\ scanning_ /\ ~connected_
      /\ WellFormed(AdvPayload)
      /\ evt'.name \in {"SCAN_RESULT", "SCAN_RESULT_OTHER"})
     => IF Qualifies(AdvPayload)
        THEN /\ issued' = <<Req("stop_scanning", 0), Req("open", 0)>>
             /\ ~scanning_'
        ELSE /\ issued' = <<>>
             /\ UNCHANGED <<ctxVars, scanning_, linkVars, svcVars, charVars,
                            seqVars, idVars>>]_vars

\* An advertisement with flags and appearance 0x03C4, without a UUID list
\* and without a name, has been accepted.
C20_AppearanceAloneAccepted ==
  /\ AdvPayload = <<2, 1, 6, 3, 25, 196, 3>>
  /\ evt.name = "SCAN_RESULT"
  /\ issued = <<Req("stop_scanning", 0), Req("open", 0)>>
  /\ ~scanning_ /\ ~connected_

RECURSIVE Overruns(_)
\* Some AD structure of the payload, met before a terminator, has a length
\* field that runs past the end of the payload.
Overruns(p) ==
  IF p = <<>> \/ p[1] = 0 THEN FALSE
  ELSE IF p[1] + 1 > Len(p) THEN TRUE
  ELSE Overruns(SubSeq(p, p[1] + 2, Len(p)))

\* C21 (SpecScan): an advertisement with an AD structure whose length field
\* runs past the declared payload length is dropped as a whole: whatever its
\* other structures hold, the handler issues no stop-scan and no open and
\* leaves scanning_, connected_ and all other connection state unchanged.
C21_MalformedAdvertDropped ==
  [][(/\ Overruns(AdvPayload)
      /\ evt'.name \in {"SCAN_RESULT", "SCAN_RESULT_OTHER"})
     => /\ issued' = <<>>
        /\ UNCHANGED <<ctxVars, scanning_, linkVars, svcVars, charVars,
                       seqVars, idVars>>]_vars

(***************************************************************************)
(* Notifications and frames (SpecPad).                                     *)
(***************************************************************************)
\* The step handles a notification.
NotifyStep == evt'.name = "NOTIFY"

\* The step hands the value of the notification to the parser.
ParserInvoked == InSeq("controller_parse_input_report", fired')

C23_RejectedReportNotFatal ==
  [][(/\ NotifyStep
      /\ \/ Len(notify'.value) < ReportLen
         \/ ~is_hid_report(notify'.handle))
     => /\ issued' = <<>>
        /\ ~InSeq("controller_on_disconnect", fired')
        /\ UNCHANGED <<ctxVars, scanning_, linkVars, svcVars, charVars,
                       seqVars, idVars>>]_vars

\* A report of 15 bytes has gone to the parser of the gamepad in use, whose
\* state is still the one of the report before.
C23_ShortReportRejected ==
  /\ evt.name = "NOTIFY"
  /\ notify.conn_id = conn_id_
  /\ is_hid_report(notify.handle)
  /\ Len(notify.value) = ReportLen - 1
  /\ fired = <<"controller_parse_input_report">>
  /\ active_controller_ /\ connected_ /\ init_state_ = "COMPLETE"
  /\ state_ = ParsedState(on_connect, MoveReport)

\* All buttons false, axes and triggers 0, battery 255.
DefaultControls(st) ==
  /\ \A b \in ButtonFields : ~st.buttons[b]
  /\ st.left_stick_x = 0 /\ st.left_stick_y = 0
  /\ st.right_stick_x = 0 /\ st.right_stick_y = 0
  /\ st.left_trigger = 0 /\ st.right_trigger = 0
  /\ st.battery_level = 255

RegistrationFailed ==
  /\ gatt_registered_
  /\ gattc_if_ = ESP_GATT_IF_NONE
  /\ Req("app_register", 0) \notin pending

\* C25 (Spec): once the registration has failed, by the return value of the
\* call or by the status of the registration event, the component is marked
\* failed, it is not scanning and not connected, and no handler issues a
\* request any more.
C25_RegistrationFailureMarksFailed ==
  /\ [](RegistrationFailed => failed /\ ~scanning_ /\ ~connected_)
  /\ [][RegistrationFailed => issued' = <<>>]_vars

(***************************************************************************)
(* The frames of loop() (SpecPad).                                         *)
(***************************************************************************)
\* A loop() iteration with an active controller.
FrameStep == evt'.name = "loop" /\ active_controller_

\* The name under which a button flag is reported.
FlagNames(b) ==
  {CHECK_BUTTON[i].name : i \in {j \in DOMAIN CHECK_BUTTON : CHECK_BUTTON[j].field = b}}

\* The positions of a sequence of calls at which the on-button callback is
\* called for the flag b.
ButtonCallsFor(calls, b) ==
  {i \in DOMAIN calls : calls[i].cb = "on_button" /\ calls[i].name \in FlagNames(b)}

StickAxes == {"left_stick_x", "left_stick_y", "right_stick_x", "right_stick_y"}

\* Some stick axis is more than 5 away from its value in the previous frame.
StickMoved(cur, prev) ==
  \E a \in StickAxes : cur[a] - prev[a] > 5 \/ prev[a] - cur[a] > 5

\* C26 (SpecPad): in a loop() iteration with an active controller the
\* on-button callback is called exactly once, with the new value, for each
\* button flag that differs from the previous frame, and for no other flag;
\* the on-stick callback is called if and only if a stick axis differs by
\* more than 5; a change of the triggers alone calls nothing; and afterwards
\* prev_state_ equals the current state.
C26_FrameCallbacks ==
  [][FrameStep =>
       /\ \A b \in ButtonFields :
            LET at == ButtonCallsFor(fired', b) IN
            IF state_.buttons[b] # prev_state_.buttons[b]
            THEN /\ Cardinality(at) = 1
                 /\ \A i \in at : fired'[i].value = state_.buttons[b]
            ELSE at = {}
       /\ \A i \in DOMAIN fired' :
            \/ fired'[i] = OnStick
            \/ \E b \in ButtonFields : i \in ButtonCallsFor(fired', b)
       /\ InSeq(OnStick, fired') <=> StickMoved(state_, prev_state_)
       /\ (/\ state_.buttons = prev_state_.buttons
           /\ \A a \in StickAxes : state_[a] = prev_state_[a])
            => fired' = <<>>
       /\ prev_state_' = state_
       /\ state_' = state_]_vars

\* A frame has reported A as pressed and no stick movement, the left stick
\* having moved by 5.
C26_ButtonWithinDeadzone ==
  /\ evt.name = "loop"
  /\ fired = <<OnButton("A", TRUE)>>
  /\ state_ = ParsedState(on_connect, NudgeReport)
  /\ state_.left_stick_x = 5
  /\ prev_state_ = state_

(***************************************************************************)
(* The parser (SpecParse).                                                 *)
(***************************************************************************)
\* The step is a call of parse_input_report; it returns true.
ParseStep == evt'.name = "parse"
ParseOk == evt'.status = OK

\* The stick, trigger, d-pad and button fields of a state.
Controls(st) == [st EXCEPT !.battery_level = 255, !.connected = FALSE]

\* C27 (SpecParse): parse_input_report returns false exactly for the reports
\* of fewer than 16 bytes and then leaves the state as it was; for a report
\* of 16 bytes or more it returns true, whatever the bytes are, and the
\* stick, trigger, d-pad and button fields afterwards are those the report
\* gives on a fresh state: nothing of the state before is left in them.
C27_ParseRejectsOnlyShort ==
  [][ParseStep =>
       IF Len(notify.value) < 16
       THEN ~ParseOk /\ state_' = state_
       ELSE /\ ParseOk
            /\ Controls(state_') = Controls(ParsedState(reset, notify.value))
            /\ state_'.battery_level = state_.battery_level
            /\ state_'.connected = state_.connected]_vars

\* A report of 15 bytes has been rejected by a controller in use.
C27_FifteenBytesRejected ==
  /\ evt = Ev("parse", FAIL, 0)
  /\ Len(notify.value) = 15
  /\ state_ = ParsedState(on_connect, OnesReport)

\* A report has been parsed.
Parsed == evt.name = "parse" /\ evt.status = OK

\* The raw 16-bit value of the left stick's X axis in the report handed.
LeftXRaw == notify.value[1] + 256 * notify.value[2]

\* C28 (SpecParse): for every raw value 0..65535 of a stick axis the stored
\* value normalize(raw) is within [-127, 127] and not above normalize(raw + 1),
\* and normalize(32768) = 0, normalize(0) = -127, normalize(65535) = 127.
C28_NormalizeFixedPoints ==
  Parsed =>
    /\ state_.left_stick_x \in -127..127
    /\ LeftXRaw < 65535 => state_.left_stick_x <= normalize_stick_16_(LeftXRaw + 1)
    /\ LeftXRaw = 32768 => state_.left_stick_x = 0
    /\ LeftXRaw = 0 => state_.left_stick_x = -127
    /\ LeftXRaw = 65535 => state_.left_stick_x = 127

\* The 10-bit raw value of a trigger whose bytes are at data[k], data[k + 1]:
\* the low byte and the two low bits of the high byte.
TriggerRaw(k) == notify.value[k + 1] + 256 * (notify.value[k + 2] % 4)

\* scale(raw) = (raw * 255) / 1023
Scaled(raw) == (raw * 255) \div 1023

\* C29 (SpecParse): for every pair of trigger bytes the raw value is the low
\* 10 bits (0..1023) and the stored trigger is scale(raw) = (raw * 255) / 1023,
\* whatever the top six bits of the high byte; scale is monotonic
\* non-decreasing, scale(0) = 0, scale(1023) = 255, and the stored value is
\* within [0, 255].
C29_TriggerScaled ==
  Parsed =>
    /\ state_.left_trigger = Scaled(TriggerRaw(8))
    /\ state_.right_trigger = Scaled(TriggerRaw(10))
    /\ state_.left_trigger \in 0..255 /\ state_.right_trigger \in 0..255
    /\ \A k \in {8, 10} :
         /\ TriggerRaw(k) \in 0..1023
         /\ TriggerRaw(k) < 1023 => Scaled(TriggerRaw(k)) <= Scaled(TriggerRaw(k) + 1)
    /\ TriggerRaw(8) = 0 => state_.left_trigger = 0
    /\ TriggerRaw(8) = 1023 => state_.left_trigger = 255

\* A left trigger with every bit of both bytes set has been stored as 255.
C29_TopBitsIgnored ==
  /\ Parsed
  /\ notify.value[9] = 255 /\ notify.value[10] = 255
  /\ state_.left_trigger = 255

\* The d-pad flags that are true in the state.
DpadSet ==
  {f \in {"dpad_up", "dpad_down", "dpad_left", "dpad_right"} : state_.buttons[f]}

\* The hat table: 0 is neutral, 1..8 go clockwise from north.
HatTable ==
  << {"dpad_up"}, {"dpad_up", "dpad_right"}, {"dpad_right"},
     {"dpad_down", "dpad_right"}, {"dpad_down"}, {"dpad_down", "dpad_left"},
     {"dpad_left"}, {"dpad_up", "dpad_left"} >>

\* C30 (SpecParse): the hat byte 0 gives no d-pad flag; 1..8 give up,
\* up+right, right, down+right, down, down+left, left, up+left, with exactly
\* those flags true; and for no hat byte are up and down, or left and right,
\* true together.
C30_HatTable ==
  Parsed =>
    LET hat == notify.value[13] IN
    /\ hat = 0 => DpadSet = {}
    /\ hat \in 1..8 => DpadSet = HatTable[hat]
    /\ ~({"dpad_up", "dpad_down"} \subseteq DpadSet)
    /\ ~({"dpad_left", "dpad_right"} \subseteq DpadSet)

\* The hat value 4 has been decoded as down and right.
C30_SouthEastDecoded ==
  /\ Parsed
  /\ notify.value[13] = 4
  /\ DpadSet = {"dpad_down", "dpad_right"}

\* The button flags that are true in the state, the d-pad's left out.
ButtonsSet ==
  {f \in ButtonFields \ {"dpad_up", "dpad_down", "dpad_left", "dpad_right"} :
     state_.buttons[f]}

\* Bit n of data[k] of the report handed.
ReportBit(k, n) == (notify.value[k + 1] \div (2 ^ n)) % 2 = 1

\* The documented positions: the flag, its byte and its bit.
ButtonBits ==
  { <<"button_south", 13, 0>>, <<"button_east", 13, 1>>,
    <<"button_west", 13, 3>>, <<"button_north", 13, 4>>,
    <<"button_l1", 13, 6>>, <<"button_r1", 13, 7>>,
    <<"button_home", 14, 4>>, <<"button_misc", 15, 0>> }

\* C31 (SpecParse): after a report of 16 bytes is parsed, each of the flags
\* south, east, west, north, L1, R1, home and misc equals its bit of bytes
\* 13..15 (byte 13: bits 0, 1, 3, 4, 6, 7; byte 14: bit 4; byte 15: bit 0),
\* whatever the other bytes and the state before; and the report
\* 00 80 00 80 00 80 00 80 FF 03 FF 03 02 01 10 00 gives all four stick axes
\* 0, both triggers 255, d-pad up and right only, and button_south and
\* button_home as the only buttons set.
C31_ButtonBitPositions ==
  Parsed =>
    /\ \A b \in ButtonBits : state_.buttons[b[1]] = ReportBit(b[2], b[3])
    /\ notify.value = PressReport =>
         /\ state_.left_stick_x = 0 /\ state_.left_stick_y = 0
         /\ state_.right_stick_x = 0 /\ state_.right_stick_y = 0
         /\ state_.left_trigger = 255 /\ state_.right_trigger = 255
         /\ DpadSet = {"dpad_up", "dpad_right"}
         /\ ButtonsSet = {"button_south", "button_home"}

\* The report with X alone in byte 13 and every other byte set has been
\* parsed by a controller in use.
C31_WestAmongSetBytes ==
  /\ Parsed
  /\ notify.value = Report(65535, 65535, 65535, 65535, 65535, 65535, 255, 8, 255, 255)
  /\ state_.buttons["button_west"] /\ ~state_.buttons["button_north"]
  /\ ~state_.buttons["button_south"]

(***************************************************************************)
(* The controller interface (SpecCtl).                                     *)
(***************************************************************************)
\* The step is a call of set_rumble or of set_led_color.
OutputStep == evt'.name \in {"set_rumble", "set_led_color"}

\* C32 (SpecCtl): set_rumble and set_led_color return false for every
\* argument and in every state of the controller, and neither call changes
\* the normalized controller state.
C32_OutputsNotSupported ==
  [][OutputStep => evt'.status = FAIL /\ state_' = state_]_vars

\* set_rumble has been called with both motors at 255 on a connected
\* controller holding a parsed report.
C32_RumbleOnUsedController ==
  /\ evt = Ev("set_rumble", FAIL, 0)
  /\ rumble_ = [weak |-> 255, strong |-> 255]
  /\ state_ = ParsedState(on_connect, MoveReport)

\* C38 (SpecCtl): supports_rumble() returns true only if set_rumble returns
\* true for some argument, supports_led() returns true only if set_led_color
\* does; for the Xbox controller both queries return false.
C38_QueriesAgreeWithOperations ==
  /\ evt.name = "supports_rumble" /\ evt.status = OK
        => \E w \in Magnitudes, s \in Magnitudes, d \in Durations :
             set_rumble(w, s, d).ok
  /\ evt.name = "supports_led" /\ evt.status = OK
        => \E r \in Magnitudes, g \in Magnitudes, b \in Magnitudes :
             set_led_color(r, g, b)
  /\ evt.name \in {"supports_rumble", "supports_led"} => evt.status = FAIL

(***************************************************************************)
(* Completions while the link is down.                                     *)
(***************************************************************************)
\* The events that complete a GATT-client request of the sequencer.
GattCompletions ==
  {"SEARCH_RES", "SEARCH_CMPL", "READ_CHAR", "WRITE_CHAR", "WRITE_DESCR",
   "REG_FOR_NOTIFY"}

\* C33: while connected_ is false, no service-search result or completion,
\* characteristic read or write, descriptor write or register-for-notify ack
\* makes the bridge issue a request, change init_state_ or
\* current_notify_index_, or create a controller.
C33_CompletionInertWhileDown ==
  [][(~connected_ /\ evt'.name \in GattCompletions)
       => /\ issued' = <<>>
          /\ UNCHANGED <<init_state_, current_notify_index_>>
          /\ (active_controller_' => active_controller_)]_vars

(***************************************************************************)
(* Scanning while idle.                                                    *)
(***************************************************************************)
\* The bridge waits for the answer to a scan-parameter or scan-start request.
ScanRestarting ==
  \E r \in pending : r.op \in {"set_scan_params", "start_scanning"}

\* The GATT client is registered, the link is down and no connection attempt
\* is outstanding.
IdleBridge ==
  /\ gattc_if_ # ESP_GATT_IF_NONE
  /\ ~connected_ /\ ~linkUp
  /\ Req("open", 0) \notin pending

\* C34: in every reachable state in which the GATT client is registered, the
\* link is down and no connection attempt is outstanding, scanning_ is true
\* or a scan restart is in progress.
C34_NeverIdleWithoutScanning ==
  IdleBridge => scanning_ \/ ScanRestarting

(***************************************************************************)
(* Connect and disconnect notifications.                                   *)
(***************************************************************************)
\* The step is one of a handler of the bridge (a frame of loop() fires the
\* button and stick callbacks only).
HandlerStep == evt'.name # "loop"

\* The notifications of the step: on-connect callbacks, and the on-disconnect
\* callbacks or the on-disconnect trigger.
ConnectNotes == SelectSeq(fired', LAMBDA f : f = "on_connect")
DisconnectNotes ==
  SelectSeq(fired', LAMBDA f : f \in {"on_disconnect", "on_disconnect_trigger"})

\* C35: on-connect and on-disconnect notifications alternate, starting with
\* on-connect: on-connect is emitted only by a step that creates the
\* controller when there was none, a disconnect notification only by a step
\* that removes an active controller, and each such step emits exactly one.
C35_NotificationsAlternate ==
  [][HandlerStep =>
       /\ Len(ConnectNotes) = (IF ~active_controller_ /\ active_controller_' THEN 1 ELSE 0)
       /\ Len(DisconnectNotes) = (IF active_controller_ /\ ~active_controller_' THEN 1 ELSE 0)]_vars

(***************************************************************************)
(* Other GATT clients of the host.                                         *)
(***************************************************************************)
\* The state of the bridge.
BridgeVars ==
  <<ctxVars, scanning_, linkVars, svcVars, charVars, seqVars, idVars>>

\* C36 (SpecHost): gattc_if_ is assigned only by a successful registration
\* event of the component's own application; a registration event of another
\* application does not change it; and an event of another interface
\* leaves the whole state of the bridge unchanged and issues nothing.
C36_IsolatedFromOtherClients ==
  [][/\ gattc_if_' # gattc_if_ => evt'.name = "REG" /\ evt'.status = OK
     /\ evt'.name = "FOREIGN_REG" => gattc_if_' = gattc_if_
     /\ evt'.name = "FOREIGN" => UNCHANGED BridgeVars /\ issued' = <<>>]_vars

(***************************************************************************)
(* Slow stick movements (SpecPad).                                         *)
(***************************************************************************)
\* C37 (SpecPad): a stick movement larger than the deadzone is reported.  As
\* long as no on-stick callback has fired since a frame, no axis seen by a
\* later frame is more than 5 away from its value in that frame: prev_state_
\* (the last frame) stays within the deadzone of the frame that fired the
\* callback last.
C37_SlowMovementReported ==
  \A axis \in StickAxes :
    Abs(prev_state_[axis] - reported[axis]) <= STICK_DEADZONE

(***************************************************************************)
(* The input event queue (SpecQueue).                                      *)
(***************************************************************************)
\* A push_event call returns in this step.
PushReturns == evt'.name = "push_event" /\ evt' # evt

\* A pop_event call returns in this step.
PopReturns == evt'.name = "pop_event" /\ task["game"].pc = "pop_locked"

\* C39 (SpecQueue): the queue never holds more than 32 events; a push onto a
\* full queue leaves the queue unchanged; pop_event returns the event at the
\* front, which is the one pushed earliest, and no event is in the queue twice;
\* and a push_event call that returns while the queue holds fewer than 32
\* events has put its event at the back of the queue, from where pop_event
\* returns it.
C39_QueueBoundedFifoLossless ==
  [][/\ Len(queue_') <= MAX_QUEUE_SIZE
     /\ PushReturns /\ Len(queue_) = MAX_QUEUE_SIZE => queue_' = queue_
     /\ PushReturns /\ Len(queue_) < MAX_QUEUE_SIZE
          => queue_' = Append(queue_, evt'.handle)
     /\ PopReturns /\ queue_ # <<>>
          => /\ evt'.status = OK
             /\ evt'.handle = Head(queue_)
             /\ queue_' = Tail(queue_)
             /\ \A i \in DOMAIN queue_' : queue_'[i] > evt'.handle
     /\ ~PushReturns /\ ~PopReturns => queue_' = queue_]_vars

====
